---- MODULE Spec2Model ----
(***************************************************************************)
(* Model of the heuristic engine of the repository:                        *)
(*   Challenge_1a/process_pdfs.py  title + outline extraction              *)
(*   Challenge_1b/pdf_analyzer.py  persona/task relevance scoring          *)
(*                                                                         *)
(* Conventions.  A Python str is a sequence of one-character strings.      *)
(* Font sizes are whole points; size_ratio = size / body_size is the pair  *)
(* <<numerator, denominator>> and every threshold test is done by cross    *)
(* multiplication, which agrees with the float comparison of the code on   *)
(* these values.  A relevance score is the pair <<numerator, denominator>> *)
(* as well.  The span field "font" is never read by the code and is left   *)
(* out of the span record.                                                 *)
(***************************************************************************)
EXTENDS Integers, Sequences, FiniteSets, TLC

\* ------------------------------------------------------------------ str

UpperChars == {"A", "B", "C", "D", "E", "F", "G", "H", "I", "J", "K", "L", "M",
               "N", "O", "P", "Q", "R", "S", "T", "U", "V", "W", "X", "Y", "Z"}

LowerChars == {"a", "b", "c", "d", "e", "f", "g", "h", "i", "j", "k", "l", "m",
               "n", "o", "p", "q", "r", "s", "t", "u", "v", "w", "x", "y", "z"}

DigitChars == {"0", "1", "2", "3", "4", "5", "6", "7", "8", "9"}

WhitespaceChars == {" ", "\t", "\n"}

AlphaChars == UpperChars \cup LowerChars

\* regex \w
WordChars == AlphaChars \cup DigitChars \cup {"_"}

LowerMap ==
    ("A" :> "a") @@ ("B" :> "b") @@ ("C" :> "c") @@ ("D" :> "d") @@
    ("E" :> "e") @@ ("F" :> "f") @@ ("G" :> "g") @@ ("H" :> "h") @@
    ("I" :> "i") @@ ("J" :> "j") @@ ("K" :> "k") @@ ("L" :> "l") @@
    ("M" :> "m") @@ ("N" :> "n") @@ ("O" :> "o") @@ ("P" :> "p") @@
    ("Q" :> "q") @@ ("R" :> "r") @@ ("S" :> "s") @@ ("T" :> "t") @@
    ("U" :> "u") @@ ("V" :> "v") @@ ("W" :> "w") @@ ("X" :> "x") @@
    ("Y" :> "y") @@ ("Z" :> "z")

lower_char(c) == IF c \in UpperChars THEN LowerMap[c] ELSE c

\* str.lower()
lower(s) == IF s = <<>> THEN <<>> ELSE [i \in 1..Len(s) |-> lower_char(s[i])]

RECURSIVE lstrip(_)
lstrip(s) ==
    IF s # <<>> /\ Head(s) \in WhitespaceChars THEN lstrip(Tail(s)) ELSE s

RECURSIVE rstrip(_)
rstrip(s) ==
    IF s # <<>> /\ s[Len(s)] \in WhitespaceChars
    THEN rstrip(SubSeq(s, 1, Len(s) - 1))
    ELSE s

\* str.strip()
strip(s) == rstrip(lstrip(s))

\* str.startswith(p)
startswith(s, p) == Len(p) <= Len(s) /\ SubSeq(s, 1, Len(p)) = p

\* str.endswith(p)
endswith(s, p) ==
    Len(p) <= Len(s) /\ SubSeq(s, Len(s) - Len(p) + 1, Len(s)) = p

\* Python's  sub in s
contains(s, sub) ==
    \E i \in 0..(Len(s) - Len(sub)) : SubSeq(s, i + 1, i + Len(sub)) = sub

\* str.isupper(): at least one cased character and no lowercase one
isupper(s) ==
    /\ \E i \in 1..Len(s) : s[i] \in UpperChars
    /\ \A i \in 1..Len(s) : s[i] \notin LowerChars

\* first index j >= i of s whose character is outside class, Len(s)+1 if none
skip_while(s, i, class) ==
    CHOOSE j \in i..(Len(s) + 1) :
        /\ j = Len(s) + 1 \/ s[j] \notin class
        /\ \A k \in i..(j - 1) : s[k] \in class

\* every character of s from index i on lies in class
all_in(s, i, class) == \A k \in i..Len(s) : s[k] \in class

\* str.split(): the maximal runs of non-whitespace characters
RECURSIVE split(_)
split(s) ==
    LET t == lstrip(s)
    IN  IF t = <<>> THEN <<>>
        ELSE LET n == CHOOSE j \in 1..(Len(t) + 1) :
                          /\ j = Len(t) + 1 \/ t[j] \in WhitespaceChars
                          /\ \A k \in 1..(j - 1) : t[k] \notin WhitespaceChars
             IN  <<SubSeq(t, 1, n - 1)>> \o split(SubSeq(t, n, Len(t)))

\* str.count(c) for a single character c
count_char(s, c) == Cardinality({i \in 1..Len(s) : s[i] = c})

\* re.match(r'^(w1|w2|...)', s, re.IGNORECASE) for literal alternatives
match_prefix_ci(s, alternatives) ==
    LET folded == lower(s)
    IN  \E w \in alternatives : startswith(folded, lower(w))

\* ------------------------------------------------------------------ process_pdfs.py: is_likely_title

NonTitlePrefixes ==
    {
    <<"P", "a", "g", "e">>, <<"F", "i", "g", "u", "r", "e">>, <<"T", "a", "b", "l", "e">>,
    <<"D", "a", "t", "e", ":">>, <<"F", "r", "o", "m", ":">>, <<"T", "o", ":">> }

\* re.match(r'^(Page|Figure|Table|\d+|Date:|From:|To:)', text, re.IGNORECASE)
matches_non_title(text) ==
    \/ match_prefix_ci(text, NonTitlePrefixes)
    \/ (text # <<>> /\ text[1] \in DigitChars)

is_likely_title(text0) ==
    LET text == strip(text0)
    IN  IF matches_non_title(text) THEN FALSE
        ELSE IF Len(text) > 10 /\ Len(text) < 150 THEN TRUE
        ELSE FALSE

\* ------------------------------------------------------------------ process_pdfs.py: is_likely_heading

SkipLabelPrefixes ==
    {
    <<"F", "i", "g", "u", "r", "e">>, <<"T", "a", "b", "l", "e">>, <<"E", "q", "u", "a", "t", "i", "o", "n">>,
    <<"P", "a", "g", "e">>, <<"D", "a", "t", "e">>, <<"F", "r", "o", "m">>,
    <<"T", "o">>, <<"E", "m", "a", "i", "l">>, <<"P", "h", "o", "n", "e">>,
    <<"w", "w", "w", ".">>, <<"h", "t", "t", "p">> }

SkipMonthPrefixes ==
    {
    <<"M", "a", "r", "c", "h">>, <<"A", "p", "r", "i", "l">>,
    <<"M", "a", "y">>, <<"J", "u", "n", "e">>,
    <<"J", "u", "l", "y">>, <<"A", "u", "g", "u", "s", "t">>,
    <<"S", "e", "p", "t", "e", "m", "b", "e", "r">>, <<"O", "c", "t", "o", "b", "e", "r">>,
    <<"N", "o", "v", "e", "m", "b", "e", "r">>, <<"D", "e", "c", "e", "m", "b", "e", "r">> }

SkipWeekdayPrefixes ==
    {
    <<"M", "o", "n", "d", "a", "y">>, <<"T", "u", "e", "s", "d", "a", "y">>,
    <<"W", "e", "d", "n", "e", "s", "d", "a", "y">>, <<"T", "h", "u", "r", "s", "d", "a", "y">>,
    <<"F", "r", "i", "d", "a", "y">>, <<"S", "a", "t", "u", "r", "d", "a", "y">>,
    <<"S", "u", "n", "d", "a", "y">> }

SkipFunctionWords ==
    {
    <<"t", "h", "e">>, <<"t", "h", "i", "s">>, <<"t", "h", "a", "t">>, <<"a", "n", "d">>,
    <<"o", "r">>, <<"b", "u", "t">>, <<"i", "f">>, <<"w", "h", "e", "n">>,
    <<"w", "h", "e", "r", "e">>, <<"h", "o", "w">>, <<"w", "h", "a", "t">>, <<"w", "h", "y">>,
    <<"f", "o", "r">>, <<"w", "i", "t", "h">>, <<"a", "s">>, <<"a", "t">>,
    <<"i", "n">>, <<"o", "n">>, <<"b", "y">> }

SkipTimePrefixes ==
    {
    <<"p", ".", "m", ".">>, <<"a", ".", "m", ".">> }

SkipExactWords ==
    {
    <<"R", "F", "P", ":">>, <<"R", "e", "q", "u", "e", "s", "t">>,
    <<"P", "r", "o", "p", "o", "s", "a", "l">>, <<"B", "u", "s", "i", "n", "e", "s", "s">>,
    <<"P", "l", "a", "n">> }

SkipPunctuation == {".", ",", ":", ";", "!", "?", "(", ")"}

FragmentSuffixes ==
    {
    <<"f">>, <<"r">>, <<"n">>, <<"s", "t">>, <<"n", "d">>,
    <<"r", "d">>, <<"t", "h">>, <<"e", "r">>, <<"e", "d">>, <<"i", "n", "g">> }

heading_words ==
    {
    <<"s", "u", "m", "m", "a", "r", "y">>, <<"i", "n", "t", "r", "o", "d", "u", "c", "t", "i", "o", "n">>,
    <<"b", "a", "c", "k", "g", "r", "o", "u", "n", "d">>, <<"c", "o", "n", "c", "l", "u", "s", "i", "o", "n">>,
    <<"r", "e", "f", "e", "r", "e", "n", "c", "e", "s">>, <<"m", "e", "t", "h", "o", "d", "o", "l", "o", "g", "y">>,
    <<"r", "e", "s", "u", "l", "t", "s">>, <<"d", "i", "s", "c", "u", "s", "s", "i", "o", "n">>,
    <<"a", "b", "s", "t", "r", "a", "c", "t">>, <<"o", "v", "e", "r", "v", "i", "e", "w">>,
    <<"t", "i", "m", "e", "l", "i", "n", "e">>, <<"a", "p", "p", "r", "o", "a", "c", "h">>,
    <<"r", "e", "q", "u", "i", "r", "e", "m", "e", "n", "t", "s">>, <<"e", "v", "a", "l", "u", "a", "t", "i", "o", "n">>,
    <<"a", "p", "p", "e", "n", "d", "i", "x">>, <<"m", "i", "l", "e", "s", "t", "o", "n", "e", "s">>,
    <<"p", "r", "e", "a", "m", "b", "l", "e">>, <<"m", "e", "m", "b", "e", "r", "s", "h", "i", "p">>,
    <<"f", "u", "n", "d", "i", "n", "g">>, <<"p", "h", "a", "s", "e">> }

TxtAppendix == <<"a", "p", "p", "e", "n", "d", "i", "x">>

\* ------------------------------------------------------------------ size_ratio

\* size_ratio > n/d, for size_ratio = <<numerator, denominator>>
ratio_gt(size_ratio, n, d) == size_ratio[1] * d > n * size_ratio[2]

\* is_bold = flags & 16 (line 74), read as a truth value
bold_bit(flags) == (flags \div 16) % 2 = 1

\* r'^\d+$' and r'^\d{4}$' (the latter is a special case of the former)
match_just_numbers(text) ==
    text # <<>> /\ all_in(text, 1, DigitChars)

\* r'^[.,:;!?()]+$'
match_just_punctuation(text) ==
    text # <<>> /\ all_in(text, 1, SkipPunctuation)

\* r'^(the|this|...|by)\s', re.IGNORECASE
match_function_word(text) ==
    LET folded == lower(text)
    IN  \E w \in SkipFunctionWords :
            /\ startswith(folded, w)
            /\ Len(text) > Len(w)
            /\ text[Len(w) + 1] \in WhitespaceChars

\* r'^\$\d+'
match_money(text) ==
    Len(text) >= 2 /\ text[1] = "$" /\ text[2] \in DigitChars

\* r'^\d+:\d+'
match_clock(text) ==
    LET i == skip_while(text, 1, DigitChars)
    IN  /\ i > 1
        /\ i + 1 <= Len(text)
        /\ text[i] = ":"
        /\ text[i + 1] \in DigitChars

\* r'^\d+\.\d+%'
match_percentage(text) ==
    LET i == skip_while(text, 1, DigitChars)
        j == skip_while(text, i + 1, DigitChars)
    IN  /\ i > 1
        /\ i <= Len(text)
        /\ text[i] = "."
        /\ j > i + 1
        /\ j <= Len(text)
        /\ text[j] = "%"

\* r'^(RFP:|Request|Proposal|Business|Plan)$', re.IGNORECASE
match_repeating_element(text) ==
    LET folded == lower(text)
    IN  \E w \in SkipExactWords : folded = lower(w)

\* r'^\d+\s*-\s*\d+$'
match_page_range(text) ==
    LET i == skip_while(text, 1, DigitChars)
        j == skip_while(text, i, WhitespaceChars)
        k == skip_while(text, j + 1, WhitespaceChars)
    IN  /\ i > 1
        /\ j <= Len(text)
        /\ text[j] = "-"
        /\ k <= Len(text)
        /\ all_in(text, k, DigitChars)

\* r'^[A-Z]\s*$', re.IGNORECASE
match_single_letter(text) ==
    /\ text # <<>>
    /\ text[1] \in AlphaChars
    /\ all_in(text, 2, WhitespaceChars)

\* the loop over skip_patterns, lines 157-176
matches_skip_pattern(text) ==
    \/ match_prefix_ci(text, SkipLabelPrefixes)
    \/ match_prefix_ci(text, SkipMonthPrefixes)
    \/ match_prefix_ci(text, SkipWeekdayPrefixes)
    \/ match_just_numbers(text)
    \/ match_just_punctuation(text)
    \/ match_function_word(text)
    \/ match_money(text)
    \/ match_prefix_ci(text, SkipTimePrefixes)
    \/ match_clock(text)
    \/ match_percentage(text)
    \/ match_repeating_element(text)
    \/ match_page_range(text)
    \/ match_single_letter(text)

\* re.search(r'(.)\1{3,}', text): four equal characters in a row ('.' is no newline)
has_repeated_run(text) ==
    \E i \in 1..(Len(text) - 3) :
        /\ text[i] # "\n"
        /\ \A k \in 1..3 : text[i + k] = text[i]

\* r'^\d+\.?\d*\.?\s*[A-Z][a-zA-Z\s]+$'
match_numbered_section(text) ==
    LET i1 == skip_while(text, 1, DigitChars)
        i2 == IF i1 <= Len(text) /\ text[i1] = "." THEN i1 + 1 ELSE i1
        i3 == skip_while(text, i2, DigitChars)
        i4 == IF i3 <= Len(text) /\ text[i3] = "." THEN i3 + 1 ELSE i3
        i5 == skip_while(text, i4, WhitespaceChars)
    IN  /\ i1 > 1
        /\ i5 + 1 <= Len(text)
        /\ text[i5] \in UpperChars
        /\ all_in(text, i5 + 1, AlphaChars \cup WhitespaceChars)

\* r'^[A-Z][a-zA-Z\s]+:$'
match_colon_heading(text) ==
    /\ Len(text) >= 3
    /\ text[1] \in UpperChars
    /\ text[Len(text)] = ":"
    /\ \A k \in 2..(Len(text) - 1) : text[k] \in AlphaChars \cup WhitespaceChars

\* r'^Appendix\s+[A-Z][\w\s:]*$', re.IGNORECASE
match_appendix(text) ==
    LET n == Len(TxtAppendix)
        i == skip_while(text, n + 1, WhitespaceChars)
    IN  /\ startswith(lower(text), TxtAppendix)
        /\ i > n + 1
        /\ i <= Len(text)
        /\ text[i] \in AlphaChars
        /\ all_in(text, i + 1, WordChars \cup WhitespaceChars \cup {":"})

\* the pre-filters of is_likely_heading, lines 152-202: TRUE when the text is rejected
rejected_by_filters(text) ==
    LET words == split(text)
    IN  \/ Len(text) < 4
        \/ matches_skip_pattern(text)
        \/ has_repeated_run(text)
        \/ 10 * Cardinality({i \in 1..Len(text) : text[i] \in AlphaChars})
             < 7 * Len(text)
        \/ (Len(words) = 1 /\ Len(text) < 6 /\ ~isupper(text))
        \/ (Len(text) < 10 /\ \E suf \in FragmentSuffixes : endswith(text, suf))
        \/ (text[1] \in LowerChars /\ Len(text) < 15)
        \/ contains(text, <<" ", " ">>)
        \/ count_char(text, " ") > Len(words)

\* size-based scoring, lines 207-217; 0 stands for the rejecting else branch
size_score(size_ratio) ==
    IF ratio_gt(size_ratio, 20, 10) THEN 5
    ELSE IF ratio_gt(size_ratio, 16, 10) THEN 4
    ELSE IF ratio_gt(size_ratio, 13, 10) THEN 3
    ELSE IF ratio_gt(size_ratio, 115, 100) THEN 2
    ELSE 0

\* the pattern, lexicon and length terms of heading_score, lines 219-262
text_score(text, is_bold) ==
    LET words == split(text)
        n == Len(text)
        folded == lower(text)
    IN  (IF is_bold THEN 3 ELSE 0)
      + (IF match_numbered_section(text) THEN 5 ELSE 0)
      + (IF isupper(text) /\ 4 <= n /\ n <= 40 /\ contains(text, <<" ">>)
         THEN 4 ELSE 0)
      + (IF /\ endswith(text, <<":">>)
            /\ match_colon_heading(text)
            /\ 6 <= n /\ n <= 50
         THEN 4 ELSE 0)
      + (IF match_appendix(text) THEN 5 ELSE 0)
      + (IF (\E w \in heading_words : contains(folded, w)) /\ n <= 50
         THEN 2 ELSE 0)
      + (IF /\ Len(words) >= 2
            /\ \A k \in 1..Len(words) :
                   Len(words[k]) > 2 => words[k][1] \in UpperChars
         THEN 2 ELSE 0)
      + (IF 8 <= n /\ n <= 60 THEN 2 ELSE IF n > 80 THEN -3 ELSE 0)
      + (IF /\ Len(words) >= 2
            /\ \A k \in 1..Len(words) :
                   Len(words[k]) >= 3 \/ isupper(words[k])
         THEN 1 ELSE 0)

\* is_likely_heading whose size scoring adds nothing instead of rejecting
is_likely_heading_any_size(text0, size_ratio, is_bold) ==
    LET text == strip(text0)
    IN  IF rejected_by_filters(text) THEN FALSE
        ELSE size_score(size_ratio) + text_score(text, is_bold) >= 6

is_likely_heading(text0, size_ratio, is_bold) ==
    LET text == strip(text0)
    IN  IF rejected_by_filters(text) THEN FALSE
        ELSE IF ~ratio_gt(size_ratio, 115, 100) THEN FALSE
        ELSE size_score(size_ratio) + text_score(text, is_bold) >= 6

\* determine_heading_level with "H1" for "H2" in the bold case of the last test
determine_heading_level_h1_slip(size_ratio, is_bold, absolute_size) ==
    IF ratio_gt(size_ratio, 20, 10) THEN "H1"
    ELSE IF ratio_gt(size_ratio, 16, 10) THEN (IF is_bold THEN "H1" ELSE "H2")
    ELSE IF ratio_gt(size_ratio, 13, 10) THEN "H2"
    ELSE IF ratio_gt(size_ratio, 11, 10) THEN (IF is_bold THEN "H1" ELSE "H3")
    ELSE "H3"

\* determine_heading_level with the bold promotions left out
determine_heading_level_no_bold(size_ratio, is_bold, absolute_size) ==
    IF ratio_gt(size_ratio, 20, 10) THEN "H1"
    ELSE IF ratio_gt(size_ratio, 16, 10) THEN "H2"
    ELSE IF ratio_gt(size_ratio, 13, 10) THEN "H2"
    ELSE "H3"

determine_heading_level(size_ratio, is_bold, absolute_size) ==
    IF ratio_gt(size_ratio, 20, 10) THEN "H1"
    ELSE IF ratio_gt(size_ratio, 16, 10) THEN (IF is_bold THEN "H1" ELSE "H2")
    ELSE IF ratio_gt(size_ratio, 13, 10) THEN "H2"
    ELSE IF ratio_gt(size_ratio, 11, 10) THEN (IF is_bold THEN "H2" ELSE "H3")
    ELSE "H3"


\* ------------------------------------------------------------------ documents

TxtMethodology == <<"M", "e", "t", "h", "o", "d", "o", "l", "o", "g", "y">>

TxtQuick == <<"T", "h", "e", " ", "q", "u", "i", "c", "k", " ", "r", "e", "s", "u", "l", "t", "s", " ", "f", "o", "l", "l", "o", "w", ".">>

TxtOverview == <<"O", "v", "e", "r", "v", "i", "e", "w">>

TxtNumOverview == <<"1", ".", " ", "O", "v", "e", "r", "v", "i", "e", "w">>

TxtTimeline == <<"T", "i", "m", "e", "l", "i", "n", "e">>

TxtOverviewTimeline == <<"O", "v", "e", "r", "v", "i", "e", "w", " ", "T", "i", "m", "e", "l", "i", "n", "e">>

TxtConclusion == <<"C", "o", "n", "c", "l", "u", "s", "i", "o", "n">>

TxtPaddedAnnualReport == <<" ", "A", "n", "n", "u", "a", "l", " ", "R", "e", "p", "o", "r", "t", " ">>

TxtPageLabel == <<"P", "a", "g", "e", " ", "3", " ", "o", "f", " ", "1", "2", " ", "p", "a", "g", "e", "s">>

TxtPaddedLetter == <<" ", "A", " ">>

TxtUntitled == <<"U", "n", "t", "i", "t", "l", "e", "d", " ", "D", "o", "c", "u", "m", "e", "n", "t">>

TxtMetaReport == <<" ", "R", "e", "p", "o", "r", "t", " ">>

TxtReport == <<"R", "e", "p", "o", "r", "t">>

TxtBlank == <<" ", " ">>

\* a run of 150 letters
TxtLong150 == [i \in 1..150 |-> IF i = 1 THEN "A" ELSE "a"]

Span(text, size, flags, page) ==
    [text |-> text, size |-> size, flags |-> flags, page |-> page]

\* raw spans as the decoder yields them (text not yet stripped)
SpanUniverse ==
    { Span(TxtMethodology, 18, 16, 1),
      Span(TxtQuick, 10, 0, 1),
      Span(TxtConclusion, 24, 0, 1),
      Span(TxtConclusion, 24, 0, 2),
      Span(TxtPaddedAnnualReport, 18, 0, 1),
      Span(TxtPageLabel, 24, 0, 1),
      Span(TxtPaddedLetter, 30, 0, 1),
      Span(TxtLong150, 18, 0, 1) }

MetaTitles == {<<>>, TxtBlank, TxtMetaReport}

\* longest document drawn from SpanUniverse
MaxSpans == 3

\* most heading spans in a heading document
MaxCands == 3

SeqsUpTo(S, n) == UNION {[1..k -> S] : k \in 0..n}

\* lines 20-27 visit the pages in order: page numbers never decrease along a document
page_ordered(spans) ==
    \A i \in 1..(Len(spans) - 1) : spans[i].page <= spans[i + 1].page

GeneralDocs == {d \in SeqsUpTo(SpanUniverse, MaxSpans) : page_ordered(d)}

HeadingTexts == {TxtOverview, TxtNumOverview, TxtTimeline, TxtOverviewTimeline}

\* spans that is_likely_heading accepts against a body size of 10
HeadingSpans ==
    {Span(t, 18, 0, 1) : t \in HeadingTexts}
    \cup {Span(t, 14, 0, 1) : t \in HeadingTexts}
    \cup {Span(t, 14, 20, 2) : t \in {TxtOverview, TxtNumOverview}}

BodySpan == Span(TxtQuick, 10, 0, 1)

\* k heading spans behind k+1 body-text spans, so that the body size is 10
HeadingDocs ==
    {[i \in 1..(Len(h) + 1) |-> BodySpan] \o h :
        h \in {c \in SeqsUpTo(HeadingSpans, MaxCands) : page_ordered(c)}}

\* two body-text spans of one size and behind them one heading-like span that is
\* as large, slightly larger (ratios 1.0625, 1.125, 1.15) or clearly larger
NearBodyDocs ==
    {<<Span(TxtQuick, b, 0, 1), Span(TxtQuick, b, 0, 1), Span(TxtMethodology, s, f, 1)>> :
        b \in {16, 20}, s \in {16, 17, 18, 20, 23, 24}, f \in {0, 16}}

\* ------------------------------------------------------------------ process_pdfs.py: extract_title_and_outline

VARIABLES
    pc,                 \* position in extract_title_and_outline
    metadata_title,     \* doc.metadata['title'] as stored in the file
    doc_spans,          \* the spans of all pages in document order, as decoded
    title,
    all_text_spans,
    body_size,          \* 0 until line 45 has run
    potential_headings,
    next_heading,       \* position of the merge loop of line 94
    seen,
    clean_outline,
    outline

docVars == <<pc, metadata_title, doc_spans, title, all_text_spans, body_size,
             potential_headings, next_heading, seen, clean_outline, outline>>

\* one text classified at a size ratio, and the result at the ratio before it
VARIABLES
    cls_pc,
    cls_text,
    cls_flags,
    cls_ratio,          \* size_ratio as <<numerator, denominator>>
    cls_result,         \* [accepted, level, size_score] at cls_ratio
    cls_before          \* [ratio, accepted, level, size_score] at the ratio before

clsVars == <<cls_pc, cls_text, cls_flags, cls_ratio, cls_result, cls_before>>

\* one call of PDFAnalyzer.calculate_relevance_score
VARIABLES
    sc_pc,
    sc_text,
    sc_persona,
    sc_task,
    sc_score            \* the returned float as <<numerator, denominator>>

scoreVars == <<sc_pc, sc_text, sc_persona, sc_task, sc_score>>

\* one call of PDFAnalyzer.refine_text
VARIABLES
    rf_pc,
    rf_text,            \* the argument text
    rf_persona,
    rf_task,
    rf_clean,           \* text after lines 188-189
    rf_scored,          \* scored_sentences
    rf_next,            \* index of the next scored sentence of the selection loop
    rf_selected,        \* selected_sentences
    rf_seen_words,
    rf_result           \* the returned string

refineVars == <<rf_pc, rf_text, rf_persona, rf_task, rf_clean, rf_scored, rf_next,
                rf_selected, rf_seen_words, rf_result>>

\* one page through PDFAnalyzer.identify_sections and the fallback of
\* extract_relevant_content
VARIABLES
    sg_pc,
    sg_text,                \* the page text
    sg_lines,               \* text.split('\n')
    sg_i,                   \* 0-based index of the next line of the loop
    sg_sections,
    sg_current_section,
    sg_section_start_line,
    sg_page_sections        \* sections as extract_relevant_content goes on with them

segVars == <<sg_pc, sg_text, sg_lines, sg_i, sg_sections, sg_current_section,
             sg_section_start_line, sg_page_sections>>

\* one call of PDFAnalyzer.process_collection
VARIABLES
    co_pc,
    co_collection,              \* the collection directory as it is on disk
    co_d,                       \* position in documents of the next document
    co_extracted_sections,
    co_subsection_analysis,
    co_output                   \* the returned dict, <<>> for {}

collectionVars == <<co_pc, co_collection, co_d, co_extracted_sections,
                    co_subsection_analysis, co_output>>

\* one run of main() of pdf_analyzer.py
VARIABLES
    mn_pc,
    mn_mode,                    \* "collection" for --collection, "all" for --all
    mn_collections,             \* the collection directories the run is pointed at
    mn_k,                       \* position of the collection in hand
    mn_outputs                  \* challenge1b_output.json of each collection, <<>> if none

mainVars == <<mn_pc, mn_mode, mn_collections, mn_k, mn_outputs>>

\* one run of process_pdfs() of process_pdfs.py
VARIABLES
    pp_pc,
    pp_pdfs,                    \* the files input_dir.glob("*.pdf") yields, in its order
    pp_i,                       \* position of the next file
    pp_outputs,                 \* the JSON file written for each PDF, <<>> if none
    pp_errors                   \* positions of the files whose error was printed

batchVars == <<pp_pc, pp_pdfs, pp_i, pp_outputs, pp_errors>>

analyzerVars == <<refineVars, segVars, collectionVars, mainVars, batchVars>>

vars == <<docVars, clsVars, scoreVars, analyzerVars>>

\* what the steps of extract_title_and_outline leave alone
docOthers == <<clsVars, scoreVars, analyzerVars>>

clsOthers == <<docVars, scoreVars, analyzerVars>>

scoreOthers == <<docVars, clsVars, analyzerVars>>

refineOthers == <<docVars, clsVars, scoreVars, segVars, collectionVars, mainVars, batchVars>>

segOthers == <<docVars, clsVars, scoreVars, refineVars, collectionVars, mainVars, batchVars>>

\* what the steps of process_collection leave alone
collectionOthers == <<docVars, clsVars, scoreVars, refineVars, segVars, batchVars>>

\* what the steps of process_pdfs leave alone
batchOthers == <<docVars, clsVars, scoreVars, refineVars, segVars, collectionVars, mainVars>>

\* lines 20-36: one record per span whose stripped text has more than one character
collect_spans(spans) ==
    LET stripped == [i \in 1..Len(spans) |->
                        [spans[i] EXCEPT !.text = strip(spans[i].text)]]
        keep(s) == s.text # <<>> /\ Len(s.text) > 1
    IN  SelectSeq(stripped, keep)

\* Counter.update for one value: counts kept in first-insertion order
counter_add(counter, v) ==
    IF \E i \in 1..Len(counter) : counter[i][1] = v
    THEN [i \in 1..Len(counter) |->
            IF counter[i][1] = v THEN <<v, counter[i][2] + 1>> ELSE counter[i]]
    ELSE Append(counter, <<v, 1>>)

\* Counter(sizes)
RECURSIVE Counter(_)
Counter(values) ==
    IF values = <<>> THEN <<>>
    ELSE counter_add(Counter(SubSeq(values, 1, Len(values) - 1)),
                     values[Len(values)])

\* max_by_count with >= for >: the last item of greatest count wins a tie
RECURSIVE max_by_count_last(_, _)
max_by_count_last(best, rest) ==
    IF rest = <<>> THEN best
    ELSE max_by_count_last(IF Head(rest)[2] >= best[2] THEN Head(rest) ELSE best,
                           Tail(rest))

\* max(items, key=count): the first item among those of greatest count
RECURSIVE max_by_count(_, _)
max_by_count(best, rest) ==
    IF rest = <<>> THEN best
    ELSE max_by_count(IF Head(rest)[2] > best[2] THEN Head(rest) ELSE best,
                      Tail(rest))

\* size_counter.most_common(1)[0][0]
most_common_value(counter) == max_by_count(Head(counter), Tail(counter))[1]

\* lines 43-45
estimate_body_size(spans) ==
    most_common_value(Counter([i \in 1..Len(spans) |-> spans[i].size]))

\* first_title without the test span["size"] == max_size
RECURSIVE first_title_any_size(_, _)
first_title_any_size(spans, max_size) ==
    IF spans = <<>> THEN <<>>
    ELSE IF is_likely_title(Head(spans).text)
         THEN Head(spans).text
         ELSE first_title_any_size(Tail(spans), max_size)

\* lines 53-56: the text of the first span that passes, <<>> when the loop ends without one
RECURSIVE first_title(_, _)
first_title(spans, max_size) ==
    IF spans = <<>> THEN <<>>
    ELSE IF Head(spans).size = max_size /\ is_likely_title(Head(spans).text)
         THEN Head(spans).text
         ELSE first_title(Tail(spans), max_size)

\* lines 48-59, for an empty title so far
title_from_first_page(spans) ==
    LET on_first(s) == s.page = 1
        first_page_spans == SelectSeq(spans, on_first)
        sizes == {first_page_spans[i].size : i \in 1..Len(first_page_spans)}
        max_size == CHOOSE m \in sizes : \A n \in sizes : n <= m
        found == IF first_page_spans # <<>>
                 THEN first_title(first_page_spans, max_size)
                 ELSE <<>>
    IN  IF found # <<>> THEN found ELSE TxtUntitled

\* resolve_title without the guard "if not title"
resolve_title_unguarded(current, spans) == title_from_first_page(spans)

\* lines 47-59: the metadata title stands whenever it is non-empty
resolve_title(current, spans) ==
    IF current = <<>> THEN title_from_first_page(spans) ELSE current

\* title_or_untitled without the fallback
title_or_untitled_no_fallback(current) == current

\* line 40: title or "Untitled Document"
title_or_untitled(current) ==
    IF current # <<>> THEN current ELSE TxtUntitled

\* lines 64-85
RECURSIVE extract_headings(_, _)
extract_headings(spans, body) ==
    IF spans = <<>> THEN <<>>
    ELSE LET span == Head(spans)
             is_bold == bold_bit(span.flags)
             size_ratio == <<span.size, body>>
             rest == extract_headings(Tail(spans), body)
         IN  IF Len(span.text) < 2 \/ Len(span.text) > 200 THEN rest
             ELSE IF is_likely_heading(span.text, size_ratio, is_bold)
             THEN << [level |-> determine_heading_level(size_ratio, is_bold, span.size),
                      text |-> span.text,
                      page |-> span.page,
                      size |-> span.size,
                      size_ratio |-> size_ratio] >> \o rest
             ELSE rest

\* Python's < on two tuples of numbers of the same length
RECURSIVE tuple_less(_, _)
tuple_less(a, b) ==
    IF a = <<>> THEN FALSE
    ELSE IF Head(a) # Head(b) THEN Head(a) < Head(b)
    ELSE tuple_less(Tail(a), Tail(b))

\* list.sort / sorted with a key: stable; keys[i] is the key of list[i]
stable_sort(list, keys) ==
    LET n == Len(list)
        \* elements placed ahead of list[i]: smaller keys, and equal keys met earlier
        pos(i) == 1 + Cardinality({j \in 1..n :
                          \/ tuple_less(keys[j], keys[i])
                          \/ (j < i /\ ~tuple_less(keys[i], keys[j]))})
    IN  IF list = <<>> THEN <<>>
        ELSE [p \in 1..n |-> list[CHOOSE i \in 1..n : pos(i) = p]]

\* line 92: potential_headings.sort(key=lambda x: (x["page"], -x["size"]))
sort_headings(headings) ==
    stable_sort(headings,
                [i \in 1..Len(headings) |-> <<headings[i].page, -headings[i].size>>])

\* line 125: sorted(clean_outline, key=lambda x: x["page"])
sort_by_page(entries) ==
    stable_sort(entries, [i \in 1..Len(entries) |-> <<entries[i].page>>])

\* first_overlap testing only "text in existing"
first_overlap_one_way(entries, text, page) ==
    LET hits == {i \in 1..Len(entries) :
                    entries[i].page = page /\ contains(entries[i].text, text)}
    IN  IF hits = {} THEN 0 ELSE CHOOSE i \in hits : \A j \in hits : i <= j

\* lines 105-114: index of the first entry on the page whose text contains, or is
\* contained in, text; 0 when the scan reaches the end of the list
first_overlap(entries, text, page) ==
    LET hits == {i \in 1..Len(entries) :
                    /\ entries[i].page = page
                    /\ (contains(entries[i].text, text) \/ contains(text, entries[i].text))}
    IN  IF hits = {} THEN 0 ELSE CHOOSE i \in hits : \A j \in hits : i <= j

\* list.remove(x): drops the first element equal to x
list_remove(list, x) ==
    LET i == CHOOSE k \in 1..Len(list) :
                 list[k] = x /\ \A j \in 1..(k - 1) : list[j] # x
    IN  SubSeq(list, 1, i - 1) \o SubSeq(list, i + 1, Len(list))

OutlineEntry(heading) ==
    [level |-> heading.level, text |-> heading.text, page |-> heading.page]

\* merge_step that always keeps the entry already in the list
merge_step_keep_existing(heading, seen_keys, entries) ==
    LET key == <<heading.text, heading.page>>
        hit == first_overlap(entries, heading.text, heading.page)
    IN  IF key \in seen_keys \/ hit # 0
        THEN [seen |-> seen_keys, clean_outline |-> entries]
        ELSE [seen |-> seen_keys \cup {key},
              clean_outline |-> Append(entries, OutlineEntry(heading))]

\* merge_step with neither the seen test nor the overlap scan
merge_step_append_all(heading, seen_keys, entries) ==
    [seen |-> seen_keys \cup {<<heading.text, heading.page>>},
     clean_outline |-> Append(entries, OutlineEntry(heading))]

\* lines 95-122: the body of the merge loop for one heading; the set seen and the
\* list clean_outline as the iteration leaves them
merge_step(heading, seen_keys, entries) ==
    LET key == <<heading.text, heading.page>>
        hit == first_overlap(entries, heading.text, heading.page)
        appended(list) ==
            [seen |-> seen_keys \cup {key},
             clean_outline |-> Append(list, OutlineEntry(heading))]
        skipped == [seen |-> seen_keys, clean_outline |-> entries]
    IN  IF key \in seen_keys THEN skipped
        ELSE IF hit = 0 THEN appended(entries)
        ELSE IF Len(heading.text) > Len(entries[hit].text)
             THEN appended(list_remove(entries, entries[hit]))
             ELSE skipped

\* lines 13-36
CollectSpans ==
    /\ pc = "open"
    /\ title' = strip(metadata_title)
    /\ all_text_spans' = collect_spans(doc_spans)
    /\ pc' = "check_empty"
    /\ UNCHANGED <<metadata_title, doc_spans, body_size, potential_headings,
                   next_heading, seen, clean_outline, outline>>
    /\ UNCHANGED docOthers

\* lines 38-40
ReturnEmpty ==
    /\ pc = "check_empty"
    /\ all_text_spans = <<>>
    /\ title' = title_or_untitled(title)
    /\ outline' = <<>>
    /\ pc' = "done"
    /\ UNCHANGED <<metadata_title, doc_spans, all_text_spans, body_size,
                   potential_headings, next_heading, seen, clean_outline>>
    /\ UNCHANGED docOthers

\* lines 42-45
EstimateBodySize ==
    /\ pc = "check_empty"
    /\ all_text_spans # <<>>
    /\ body_size' = estimate_body_size(all_text_spans)
    /\ pc' = "title"
    /\ UNCHANGED <<metadata_title, doc_spans, title, all_text_spans,
                   potential_headings, next_heading, seen, clean_outline, outline>>
    /\ UNCHANGED docOthers

\* lines 47-59
ResolveTitle ==
    /\ pc = "title"
    /\ title' = resolve_title(title, all_text_spans)
    /\ pc' = "headings"
    /\ UNCHANGED <<metadata_title, doc_spans, all_text_spans, body_size,
                   potential_headings, next_heading, seen, clean_outline, outline>>
    /\ UNCHANGED docOthers

\* lines 61-85
ExtractHeadings ==
    /\ pc = "headings"
    /\ potential_headings' = extract_headings(all_text_spans, body_size)
    /\ pc' = "sort"
    /\ UNCHANGED <<metadata_title, doc_spans, title, all_text_spans, body_size,
                   next_heading, seen, clean_outline, outline>>
    /\ UNCHANGED docOthers

\* lines 87-92
SortHeadings ==
    /\ pc = "sort"
    /\ seen' = {}
    /\ clean_outline' = <<>>
    /\ potential_headings' = sort_headings(potential_headings)
    /\ next_heading' = 1
    /\ pc' = "merge"
    /\ UNCHANGED <<metadata_title, doc_spans, title, all_text_spans, body_size,
                   outline>>
    /\ UNCHANGED docOthers

\* lines 94-122, one iteration of the loop
MergeHeading ==
    /\ pc = "merge"
    /\ next_heading <= Len(potential_headings)
    /\ LET merged == merge_step(potential_headings[next_heading], seen, clean_outline)
       IN  /\ seen' = merged.seen
           /\ clean_outline' = merged.clean_outline
    /\ next_heading' = next_heading + 1
    /\ UNCHANGED <<pc, metadata_title, doc_spans, title, all_text_spans, body_size,
                   potential_headings, outline>>
    /\ UNCHANGED docOthers

\* lines 124-132
FinalSort ==
    /\ pc = "merge"
    /\ next_heading > Len(potential_headings)
    /\ outline' = sort_by_page(clean_outline)
    /\ pc' = "done"
    /\ UNCHANGED <<metadata_title, doc_spans, title, all_text_spans, body_size,
                   potential_headings, next_heading, seen, clean_outline>>
    /\ UNCHANGED docOthers

DocInit ==
    /\ pc = "open"
    /\ \/ metadata_title \in MetaTitles /\ doc_spans \in GeneralDocs
       \/ metadata_title = <<>> /\ doc_spans \in HeadingDocs
       \/ metadata_title = <<>> /\ doc_spans \in NearBodyDocs
    /\ title = <<>>
    /\ all_text_spans = <<>>
    /\ body_size = 0
    /\ potential_headings = <<>>
    /\ next_heading = 0
    /\ seen = {}
    /\ clean_outline = <<>>
    /\ outline = <<>>

\* no document is being processed
DocIdle ==
    /\ pc = "idle"
    /\ metadata_title = <<>>
    /\ doc_spans = <<>>
    /\ title = <<>>
    /\ all_text_spans = <<>>
    /\ body_size = 0
    /\ potential_headings = <<>>
    /\ next_heading = 0
    /\ seen = {}
    /\ clean_outline = <<>>
    /\ outline = <<>>

NoResult == [accepted |-> FALSE, level |-> "none", size_score |-> 0]

NoBefore == [ratio |-> <<0, 1>>, accepted |-> FALSE, level |-> "none",
             size_score |-> 0]

ClsIdle ==
    /\ cls_pc = "idle"
    /\ cls_text = <<>>
    /\ cls_flags = 0
    /\ cls_ratio = <<0, 1>>
    /\ cls_result = NoResult
    /\ cls_before = NoBefore

ScoreIdle ==
    /\ sc_pc = "idle"
    /\ sc_text = <<>>
    /\ sc_persona = ""
    /\ sc_task = <<>>
    /\ sc_score = <<0, 1>>

RefineIdle ==
    /\ rf_pc = "idle"
    /\ rf_text = <<>>
    /\ rf_persona = ""
    /\ rf_task = <<>>
    /\ rf_clean = <<>>
    /\ rf_scored = <<>>
    /\ rf_next = 0
    /\ rf_selected = <<>>
    /\ rf_seen_words = {}
    /\ rf_result = <<>>

SegIdle ==
    /\ sg_pc = "idle"
    /\ sg_text = <<>>
    /\ sg_lines = <<>>
    /\ sg_i = 0
    /\ sg_sections = <<>>
    /\ sg_current_section = <<>>
    /\ sg_section_start_line = 0
    /\ sg_page_sections = <<>>

CollectionIdle ==
    /\ co_pc = "idle"
    /\ co_collection = <<>>
    /\ co_d = 0
    /\ co_extracted_sections = <<>>
    /\ co_subsection_analysis = <<>>
    /\ co_output = <<>>

MainIdle ==
    /\ mn_pc = "idle"
    /\ mn_mode = "idle"
    /\ mn_collections = <<>>
    /\ mn_k = 0
    /\ mn_outputs = <<>>

BatchIdle ==
    /\ pp_pc = "idle"
    /\ pp_pdfs = <<>>
    /\ pp_i = 0
    /\ pp_outputs = <<>>
    /\ pp_errors = {}

OrchestratorIdle == CollectionIdle /\ MainIdle /\ BatchIdle

AnalyzerIdle == RefineIdle /\ SegIdle /\ OrchestratorIdle

Init == DocInit /\ ClsIdle /\ ScoreIdle /\ AnalyzerIdle

Next ==
    \/ CollectSpans
    \/ ReturnEmpty
    \/ EstimateBodySize
    \/ ResolveTitle
    \/ ExtractHeadings
    \/ SortHeadings
    \/ MergeHeading
    \/ FinalSort

Spec == Init /\ [][Next]_vars

\* ------------------------------------------------------------------ properties of extract_title_and_outline

\* s with leading and trailing whitespace removed, stated by positions
trimmed(s) ==
    LET solid == {i \in 1..Len(s) : s[i] \notin WhitespaceChars}
        lo == CHOOSE i \in solid : \A j \in solid : i <= j
        hi == CHOOSE i \in solid : \A j \in solid : j <= i
    IN  IF solid = {} THEN <<>> ELSE SubSeq(s, lo, hi)

strict_substring(a, b) == a # b /\ contains(b, a)

returned == pc = "done"

entries_on(list, page) ==
    LET on_page(e) == e.page = page
    IN  SelectSeq(list, on_page)

unique_keys(list) ==
    \A i, j \in 1..Len(list) :
        i # j => <<list[i].text, list[i].page>> # <<list[j].text, list[j].page>>

\* C1: the returned outline has no two entries on one page such that the text of
\* one is a strict substring of the text of the other.
C1_NoStrictSubstringOnPage ==
    returned =>
        \A i, j \in 1..Len(outline) :
            outline[i].page = outline[j].page
                => ~strict_substring(outline[i].text, outline[j].text)

\* C2: no two entries of clean_outline, after any step of the merge pass, and no
\* two entries of the returned outline have the same (text, page).
C2_UniqueTextPage == unique_keys(clean_outline) /\ unique_keys(outline)

\* the merge pass ended after skipping a repeated (text, page) and after removing
\* an entry that had been appended
C2_Witness ==
    /\ returned
    /\ outline # <<>>
    /\ ~unique_keys(potential_headings)
    /\ \E k \in seen : \A i \in 1..Len(outline) :
           <<outline[i].text, outline[i].page>> # k

\* C3: when exactly two candidates were accepted on a page and the text of one
\* strictly contains the text of the other, the returned outline has exactly one
\* entry on that page and it carries the longer text.
C3_LongerOfTwoSurvives ==
    returned =>
        \A p \in {potential_headings[i].page : i \in 1..Len(potential_headings)} :
            LET cands == entries_on(potential_headings, p)
                kept == entries_on(outline, p)
            IN  ( /\ Len(cands) = 2
                  /\ \/ strict_substring(cands[1].text, cands[2].text)
                     \/ strict_substring(cands[2].text, cands[1].text) )
                => ( /\ Len(kept) = 1
                     /\ kept[1].text =
                            IF Len(cands[1].text) > Len(cands[2].text)
                            THEN cands[1].text ELSE cands[2].text )

\* two candidates on a page, the shorter text in the larger font, so that the
\* longer one arrives second and replaces it
C3_Witness ==
    /\ returned
    /\ \E p \in {1, 2} :
           LET cands == entries_on(potential_headings, p)
           IN  /\ Len(cands) = 2
               /\ strict_substring(cands[1].text, cands[2].text)
               /\ cands[1].size > cands[2].size
               /\ Len(entries_on(outline, p)) = 1

\* C4: a metadata title that is non-empty after trimming is returned, trimmed,
\* whatever the spans are (" Report " gives "Report").
C4_MetadataTitleWins ==
    returned =>
        /\ trimmed(metadata_title) # <<>> => title = trimmed(metadata_title)
        /\ metadata_title = TxtMetaReport => title = TxtReport

\* the metadata title won over a plausible largest span of page 1
C4_Witness ==
    /\ returned
    /\ metadata_title = TxtMetaReport
    /\ title = TxtReport
    /\ all_text_spans # <<>>
    /\ all_text_spans[1].text = TxtMethodology

\* the plausibility predicate as the claim words it
plausible_title(text) ==
    /\ Len(text) > 10
    /\ Len(text) < 150
    /\ ~matches_non_title(text)

\* C5: with an empty metadata title and at least one span, the title is the text of
\* the first span that is on page 1, has the greatest size of page 1 and is a
\* plausible title; it is "Untitled Document" when there is no such span.
C5_TitleFromFirstPage ==
    returned /\ trimmed(metadata_title) = <<>> /\ all_text_spans # <<>> =>
        LET first_page == {i \in 1..Len(all_text_spans) : all_text_spans[i].page = 1}
            largest == {i \in first_page :
                           \A j \in first_page :
                               all_text_spans[j].size <= all_text_spans[i].size}
            eligible == {i \in largest : plausible_title(all_text_spans[i].text)}
        IN  IF eligible = {}
            THEN title = TxtUntitled
            ELSE title = all_text_spans[CHOOSE i \in eligible :
                                            \A j \in eligible : i <= j].text

\* the title is the second largest-size span of page 1, the first one being no
\* plausible title, while a smaller plausible span precedes both or none does
C5_Witness ==
    /\ returned
    /\ trimmed(metadata_title) = <<>>
    /\ \E i, j \in 1..Len(all_text_spans) :
           /\ i < j
           /\ all_text_spans[i].page = 1
           /\ all_text_spans[j].page = 1
           /\ all_text_spans[i].size = all_text_spans[j].size
           /\ ~plausible_title(all_text_spans[i].text)
           /\ title = all_text_spans[j].text
           /\ title # all_text_spans[i].text

\* C6: a document without spans returns an empty outline, never estimates the body
\* size, and its title is the trimmed metadata title or "Untitled Document".
C6_EmptyDocument ==
    returned /\ all_text_spans = <<>> =>
        /\ outline = <<>>
        /\ body_size = 0
        /\ potential_headings = <<>>
        /\ title = IF trimmed(metadata_title) # <<>>
                   THEN trimmed(metadata_title)
                   ELSE TxtUntitled

\* a document whose only spans were dropped at line 29, without metadata title
C6_Witness ==
    /\ returned
    /\ all_text_spans = <<>>
    /\ doc_spans # <<>>
    /\ title = TxtUntitled

size_frequency(v) ==
    Cardinality({i \in 1..Len(all_text_spans) : all_text_spans[i].size = v})

first_occurrence(v) ==
    CHOOSE i \in 1..Len(all_text_spans) :
        /\ all_text_spans[i].size = v
        /\ \A j \in 1..(i - 1) : all_text_spans[j].size # v

body_size_estimated ==
    pc \in {"title", "headings", "sort", "merge"}
        \/ (returned /\ all_text_spans # <<>>)

\* C7: the estimated body size occurs among the spans, no size is more frequent,
\* and no size of the same frequency occurs earlier in document order.
C7_BodySizeIsFirstMode ==
    body_size_estimated =>
        /\ \E i \in 1..Len(all_text_spans) : all_text_spans[i].size = body_size
        /\ \A i \in 1..Len(all_text_spans) :
               LET v == all_text_spans[i].size
               IN  /\ size_frequency(v) <= size_frequency(body_size)
                   /\ size_frequency(v) = size_frequency(body_size)
                          => first_occurrence(body_size) <= first_occurrence(v)

\* three sizes tie for the greatest frequency and the first one in document order,
\* which is neither the largest nor the smallest, is the body size
C7_Witness ==
    /\ pc = "title"
    /\ \E i, j \in 1..Len(all_text_spans) :
           /\ all_text_spans[i].size < body_size
           /\ all_text_spans[j].size > body_size
           /\ size_frequency(all_text_spans[i].size) = size_frequency(body_size)
           /\ size_frequency(all_text_spans[j].size) = size_frequency(body_size)

ScenarioA ==
    << Span(TxtMethodology, 18, 16, 1), Span(TxtQuick, 10, 0, 1) >>

\* scenario A with the body-text span twice, which makes size 10 the mode
ScenarioABody10 ==
    << Span(TxtMethodology, 18, 16, 1), Span(TxtQuick, 10, 0, 1),
       Span(TxtQuick, 10, 0, 1) >>

ScenarioAOutline ==
    << [level |-> "H1", text |-> TxtMethodology, page |-> 1] >>

\* C8 as stated: scenario A returns the outline with the one H1 entry.
C8_ScenarioA_AsStated ==
    returned /\ doc_spans = ScenarioA => outline = ScenarioAOutline

\* C8 amended: for the two spans of scenario A the body size is 18 (both sizes
\* occur once, the first wins) and the outline is empty; once size 10 is the mode
\* the outline is the one H1 entry.
C8_ScenarioA ==
    returned =>
        /\ doc_spans = ScenarioA => body_size = 18 /\ outline = <<>>
        /\ doc_spans = ScenarioABody10 =>
               body_size = 10 /\ outline = ScenarioAOutline

C8_Witness ==
    /\ returned
    /\ doc_spans = ScenarioABody10
    /\ Len(outline) = 1

\* ------------------------------------------------------------------ the heading classifier at growing size ratios

\* size ratios are the multiples of 1/RatioDen from 1/2 to MaxRatioNum/RatioDen
RatioDen == 20

MaxRatioNum == 44

ClsRatios == {<<n, RatioDen>> : n \in (RatioDen \div 2)..MaxRatioNum}

ClsTexts == {TxtQuick, TxtOverview, TxtReport, TxtMethodology}

ClsFlags == {0, 4, 16, 20}

\* lines 74-78 for one span: the verdict of is_likely_heading, the level that
\* determine_heading_level assigns, and the size term of the score
classify(text, flags, size_ratio) ==
    LET is_bold == bold_bit(flags)
    IN  [accepted |-> is_likely_heading(text, size_ratio, is_bold),
         level |-> determine_heading_level(size_ratio, is_bold, 0),
         size_score |-> size_score(size_ratio)]

ClsInit ==
    /\ cls_pc = "ready"
    /\ cls_text \in ClsTexts
    /\ cls_flags \in ClsFlags
    /\ cls_ratio \in ClsRatios
    /\ cls_result = NoResult
    /\ cls_before = NoBefore

Classify ==
    /\ cls_pc = "ready"
    /\ cls_result' = classify(cls_text, cls_flags, cls_ratio)
    /\ cls_pc' = "classified"
    /\ UNCHANGED <<cls_text, cls_flags, cls_ratio, cls_before>>
    /\ UNCHANGED clsOthers

\* the same text and flags met again at a ratio that is not smaller
Enlarge ==
    /\ cls_pc = "classified"
    /\ \E r \in ClsRatios :
           /\ r[1] >= cls_ratio[1]
           /\ cls_ratio' = r
    /\ cls_before' = [ratio |-> cls_ratio,
                      accepted |-> cls_result.accepted,
                      level |-> cls_result.level,
                      size_score |-> cls_result.size_score]
    /\ cls_pc' = "ready"
    /\ UNCHANGED <<cls_text, cls_flags, cls_result>>
    /\ UNCHANGED clsOthers

InitClassify == DocIdle /\ ClsInit /\ ScoreIdle /\ AnalyzerIdle

NextClassify == Classify \/ Enlarge

SpecClassify == InitClassify /\ [][NextClassify]_vars

\* ------------------------------------------------------------------ pdf_analyzer.py: calculate_relevance_score

persona_keywords ==
    [ p \in {"Travel Planner", "HR professional", "Food Contractor"} |->
        IF p = "Travel Planner" THEN
            {
            <<"t", "r", "a", "v", "e", "l">>, <<"t", "r", "i", "p">>, <<"d", "e", "s", "t", "i", "n", "a", "t", "i", "o", "n">>,
            <<"h", "o", "t", "e", "l">>, <<"r", "e", "s", "t", "a", "u", "r", "a", "n", "t">>, <<"a", "c", "t", "i", "v", "i", "t", "y">>,
            <<"t", "o", "u", "r">>, <<"b", "e", "a", "c", "h">>, <<"c", "i", "t", "y">>,
            <<"c", "u", "l", "t", "u", "r", "e">>, <<"f", "o", "o", "d">>, <<"n", "i", "g", "h", "t", "l", "i", "f", "e">>,
            <<"t", "r", "a", "n", "s", "p", "o", "r", "t", "a", "t", "i", "o", "n">> }
        ELSE IF p = "HR professional" THEN
            {
            <<"f", "o", "r", "m">>, <<"s", "i", "g", "n", "a", "t", "u", "r", "e">>, <<"d", "o", "c", "u", "m", "e", "n", "t">>,
            <<"e", "m", "p", "l", "o", "y", "e", "e">>, <<"o", "n", "b", "o", "a", "r", "d", "i", "n", "g">>, <<"c", "o", "m", "p", "l", "i", "a", "n", "c", "e">>,
            <<"f", "i", "l", "l", "a", "b", "l", "e">>, <<"w", "o", "r", "k", "f", "l", "o", "w">>, <<"d", "i", "g", "i", "t", "a", "l">>,
            <<"e", "l", "e", "c", "t", "r", "o", "n", "i", "c">>, <<"p", "r", "o", "c", "e", "s", "s">> }
        ELSE
            {
            <<"r", "e", "c", "i", "p", "e">>, <<"v", "e", "g", "e", "t", "a", "r", "i", "a", "n">>, <<"g", "l", "u", "t", "e", "n", "-", "f", "r", "e", "e">>,
            <<"b", "u", "f", "f", "e", "t">>, <<"c", "o", "r", "p", "o", "r", "a", "t", "e">>, <<"c", "a", "t", "e", "r", "i", "n", "g">>,
            <<"i", "n", "g", "r", "e", "d", "i", "e", "n", "t">>, <<"c", "o", "o", "k", "i", "n", "g">>, <<"m", "e", "a", "l">>,
            <<"d", "i", "s", "h">>, <<"m", "e", "n", "u">>, <<"d", "i", "e", "t", "a", "r", "y">> } ]

\* persona_keywords_get that finds no persona
persona_keywords_get_none(persona) == {}

\* persona_keywords.get(persona, [])
persona_keywords_get(persona) ==
    IF persona \in DOMAIN persona_keywords THEN persona_keywords[persona] ELSE {}

\* a period that ends a token becomes a token of its own
RECURSIVE split_off_period(_)
split_off_period(tokens) ==
    IF tokens = <<>> THEN <<>>
    ELSE LET tok == Head(tokens)
             n == Len(tok)
         IN  (IF n > 1 /\ tok[n] = "."
              THEN <<SubSeq(tok, 1, n - 1), <<".">>>>
              ELSE <<tok>>)
             \o split_off_period(Tail(tokens))

\* nltk word_tokenize on text made of letters, digits, hyphens and blanks, with
\* periods at the ends of sentences only: its tokens are the maximal runs of
\* non-blank characters, a sentence-final period being a token of its own
word_tokenize(s) == split_off_period(split(s))

\* set(word.lower() for word in tokens if len(word) > 3)
long_words(tokens) ==
    {lower(tokens[i]) : i \in {k \in 1..Len(tokens) : Len(tokens[k]) > 3}}

\* cap_at_100 without the cap
cap_at_100_uncapped(score) == <<100 * score[1], score[2]>>

\* min(score * 100, 100.0) for score = <<numerator, denominator>>
cap_at_100(score) ==
    IF 100 * score[1] > 100 * score[2] THEN <<100, 1>>
    ELSE <<100 * score[1], score[2]>>

calculate_relevance_score(text, persona, task) ==
    LET task_words == long_words(word_tokenize(task))
        persona_words == persona_keywords_get(persona)
        text_words == long_words(word_tokenize(lower(text)))
        persona_matches == Cardinality(text_words \cap persona_words)
        task_matches == Cardinality(text_words \cap task_words)
        text_length == Cardinality(text_words)
    IN  IF text_length = 0 THEN <<0, 1>>
        ELSE cap_at_100(<<persona_matches * 2 + task_matches * 3, text_length>>)

WordBeach == <<"b", "e", "a", "c", "h">>

WordFood == <<"F", "o", "o", "d">>

WordTrip == <<"t", "r", "i", "p">>

WordThe == <<"t", "h", "e">>

WordCoast == <<"c", "o", "a", "s", "t">>

WordWindow == <<"w", "i", "n", "d", "o", "w">>

WordMenu == <<"m", "e", "n", "u">>

TaskTrip == <<"P", "l", "a", "n", " ", "a", " ", "3", " ", "d", "a", "y", " ", "t", "r", "i", "p", " ", "t", "o", " ", "t", "h", "e", " ", "c", "o", "a", "s", "t">>

TaskMenu == <<"P", "r", "e", "p", "a", "r", "e", " ", "a", " ", "M", "e", "n", "u", " ", "f", "o", "r", " ", "t", "h", "e", " ", "w", "i", "n", "d", "o", "w", " ", "s", "e", "a", "t", "s">>

ScoreVocabulary ==
    {WordBeach, WordFood, WordTrip, WordThe, WordCoast, WordWindow, WordMenu}

\* most words in a scored text
MaxWords == 3

\* " ".join(words)
RECURSIVE join_blank(_)
join_blank(words) ==
    IF words = <<>> THEN <<>>
    ELSE IF Len(words) = 1 THEN words[1]
    ELSE words[1] \o <<" ">> \o join_blank(Tail(words))

\* the text of scenario B
TxtScenarioB == <<"V", "i", "s", "i", "t", " ", "t", "h", "e", " ", "b", "e", "a", "c", "h", " ", "a", "n", "d", " ", "e", "n", "j", "o", "y", " ", "l", "o", "c", "a", "l", " ", "f", "o", "o", "d", " ", "a", "n", "d", " ", "c", "u", "l", "t", "u", "r", "e">>

WordCulture == <<"c", "u", "l", "t", "u", "r", "e">>

ScoreTexts ==
    {join_blank(w) : w \in SeqsUpTo(ScoreVocabulary, MaxWords)} \cup {TxtScenarioB}

ScorePersonas == {"Travel Planner", "Food Contractor", "travel planner"}

ScoreTasks == {TaskTrip, TaskMenu}

ScoreInit ==
    /\ sc_pc = "call"
    /\ sc_text \in ScoreTexts
    /\ sc_persona \in ScorePersonas
    /\ sc_task \in ScoreTasks
    /\ sc_score = <<0, 1>>

Score ==
    /\ sc_pc = "call"
    /\ sc_score' = calculate_relevance_score(sc_text, sc_persona, sc_task)
    /\ sc_pc' = "scored"
    /\ UNCHANGED <<sc_text, sc_persona, sc_task>>
    /\ UNCHANGED scoreOthers

InitScore == DocIdle /\ ClsIdle /\ ScoreInit /\ AnalyzerIdle

NextScore == Score

SpecScore == InitScore /\ [][NextScore]_vars

\* ------------------------------------------------------------------ properties of the heading classifier

level_rank(level) ==
    IF level = "H1" THEN 3 ELSE IF level = "H2" THEN 2 ELSE 1

\* C9: with text and boldness fixed, at a size ratio that is not smaller the level
\* does not rank lower, the size term of the score is not smaller, and a text
\* that was accepted is accepted again.
C9_MonotonicInSizeRatio ==
    cls_pc = "classified" /\ cls_before # NoBefore =>
        /\ level_rank(cls_before.level) <= level_rank(cls_result.level)
        /\ cls_before.size_score <= cls_result.size_score
        /\ cls_before.accepted => cls_result.accepted

\* a text rejected at the smaller ratio and accepted at the larger one, with the
\* level rising as well
C9_Witness ==
    /\ cls_pc = "classified"
    /\ cls_before # NoBefore
    /\ ~cls_before.accepted
    /\ cls_before.size_score > 0
    /\ cls_result.accepted
    /\ level_rank(cls_before.level) < level_rank(cls_result.level)

\* ------------------------------------------------------------------ properties of calculate_relevance_score

\* the lowercased words of more than three characters of s, by position: the
\* maximal blank-free stretches of s
words_longer_than_3(s) ==
    {lower(SubSeq(s, i, j)) : <<i, j>> \in
        {ij \in (1..Len(s)) \X (1..Len(s)) :
            /\ ij[2] - ij[1] + 1 > 3
            /\ \A k \in ij[1]..ij[2] : s[k] \notin WhitespaceChars
            /\ ij[1] = 1 \/ s[ij[1] - 1] \in WhitespaceChars
            /\ ij[2] = Len(s) \/ s[ij[2] + 1] \in WhitespaceChars}}

KnownPersonas == {"Travel Planner", "HR professional", "Food Contractor"}

\* C10: the score s satisfies 0 <= s <= 100 and s = min(100, 100 * (2 * persona
\* matches + 3 * task matches) / |text words|); it is 0 when the text has no word
\* longer than 3 characters; an unknown persona counts no persona match.
C10_ScoreFormulaAndBounds ==
    sc_pc = "scored" =>
        LET text_words == words_longer_than_3(sc_text)
            task_words == words_longer_than_3(sc_task)
            keywords == IF sc_persona \in KnownPersonas
                        THEN persona_keywords[sc_persona] ELSE {}
            n == Cardinality(text_words)
            weight == 2 * Cardinality(text_words \cap keywords)
                      + 3 * Cardinality(text_words \cap task_words)
            num == sc_score[1]
            den == sc_score[2]
        IN  /\ den > 0
            /\ 0 <= num
            /\ num <= 100 * den
            /\ n = 0 => num = 0
            /\ n > 0 /\ weight >= n => num = 100 * den
            /\ n > 0 /\ weight < n => num * n = 100 * weight * den

\* a score of 100 that only the cap produces
C10_Witness ==
    /\ sc_pc = "scored"
    /\ sc_score = <<100, 1>>
    /\ Cardinality(words_longer_than_3(sc_text)) = 1
    /\ sc_persona = "Travel Planner"

\* ------------------------------------------------------------------ scenario B of the relevance score

\* text_words of calculate_relevance_score
text_words_of(text) == long_words(word_tokenize(lower(text)))

\* task_words of calculate_relevance_score
task_words_of(task) == long_words(word_tokenize(task))

ScenarioB ==
    /\ sc_pc = "scored"
    /\ sc_text = TxtScenarioB
    /\ sc_persona = "Travel Planner"
    /\ sc_task = TaskTrip

\* C11 as stated: in scenario B the score is positive and the text's words
\* overlap both the persona lexicon and the task's words.
C11_ScenarioB_AsStated ==
    ScenarioB =>
        /\ sc_score[1] > 0
        /\ text_words_of(sc_text) \cap persona_keywords_get(sc_persona) # {}
        /\ text_words_of(sc_text) \cap task_words_of(sc_task) # {}

\* C11: in scenario B the score is positive (it is the cap, 100); the text's
\* words overlap the persona lexicon in exactly beach, food and culture, and
\* they share no word with the task: trip and coast are words of the task
\* but not of the text.
C11_ScenarioB ==
    ScenarioB =>
        /\ sc_score[1] > 0
        /\ sc_score[1] = 100 * sc_score[2]
        /\ text_words_of(sc_text) \cap persona_keywords_get(sc_persona)
               = {WordBeach, lower(WordFood), WordCulture}
        /\ {WordTrip, WordCoast} \subseteq task_words_of(sc_task)
        /\ text_words_of(sc_text) \cap task_words_of(sc_task) = {}

C11_Witness == ScenarioB

\* ------------------------------------------------------------------ size above body size is mandatory

headings_extracted == pc \in {"sort", "merge", "done"}

\* the spans of the document lie within 1.15 times the body size
within_115(span) == 100 * span.size <= 115 * body_size

from_span(entry, span) == entry.text = span.text /\ entry.page = span.page

one_font_size ==
    \A i, j \in 1..Len(all_text_spans) : all_text_spans[i].size = all_text_spans[j].size

\* C15: no span whose size is at most 1.15 times the body size is accepted as a
\* heading; the outline holds no entry that only such spans could have
\* produced, none from a span at the body size; a document of one font size
\* has an empty outline; and every accepted heading got its level from a
\* branch of determine_heading_level above the ratio 1.1.
C15_SizeAboveBodyMandatory ==
    headings_extracted =>
        /\ \A k \in 1..Len(potential_headings) :
               /\ 100 * potential_headings[k].size > 115 * body_size
               /\ 10 * potential_headings[k].size > 11 * body_size
               /\ potential_headings[k].size_ratio = <<potential_headings[k].size, body_size>>
        /\ \A k \in 1..Len(clean_outline) :
               \E i \in 1..Len(all_text_spans) :
                   /\ from_span(clean_outline[k], all_text_spans[i])
                   /\ ~within_115(all_text_spans[i])
        /\ \A k \in 1..Len(outline) :
               \E i \in 1..Len(all_text_spans) :
                   /\ from_span(outline[k], all_text_spans[i])
                   /\ ~within_115(all_text_spans[i])
        /\ (one_font_size => potential_headings = <<>> /\ clean_outline = <<>>
                                /\ outline = <<>>)

\* a returned document with a bold heading word between 1.1 and 1.15 times the
\* body size, which a larger size would have made a heading
C15_Witness ==
    /\ returned
    /\ outline = <<>>
    /\ \E i \in 1..Len(all_text_spans) :
           /\ 10 * all_text_spans[i].size > 11 * body_size
           /\ within_115(all_text_spans[i])
           /\ bold_bit(all_text_spans[i].flags)
           /\ is_likely_heading(all_text_spans[i].text, <<2, 1>>, TRUE)

\* ------------------------------------------------------------------ the merge pass keeps maximal headings

\* candidate k is not strictly contained in another candidate of its page
maximal_candidate(k) ==
    ~\E j \in 1..Len(potential_headings) :
        /\ potential_headings[j].page = potential_headings[k].page
        /\ strict_substring(potential_headings[k].text, potential_headings[j].text)

listed(list, entry) == \E i \in 1..Len(list) : list[i] = entry

\* the candidates the merge loop has gone through
merged_so_far ==
    IF pc = "done" THEN Len(potential_headings)
    ELSE IF pc = "merge" THEN next_heading - 1
    ELSE 0

maximal_headings_kept ==
    /\ \A k \in 1..merged_so_far :
           maximal_candidate(k) =>
               \E i \in 1..Len(clean_outline) :
                   /\ clean_outline[i].text = potential_headings[k].text
                   /\ clean_outline[i].page = potential_headings[k].page
    /\ returned =>
           \A k \in 1..Len(potential_headings) :
               maximal_candidate(k) =>
                   \E i \in 1..Len(outline) :
                       /\ outline[i].text = potential_headings[k].text
                       /\ outline[i].page = potential_headings[k].page

\* whatever leaves clean_outline in a step is replaced, in that step, by the
\* heading being merged, which is on its page, strictly longer and contains it
removed_only_for_longer ==
    \A i \in 1..Len(clean_outline) :
        ~listed(clean_outline', clean_outline[i]) =>
            /\ pc = "merge"
            /\ next_heading <= Len(potential_headings)
            /\ clean_outline' # <<>>
            /\ clean_outline'[Len(clean_outline')]
                   = OutlineEntry(potential_headings[next_heading])
            /\ potential_headings[next_heading].page = clean_outline[i].page
            /\ Len(potential_headings[next_heading].text) > Len(clean_outline[i].text)
            /\ strict_substring(clean_outline[i].text,
                                potential_headings[next_heading].text)

\* C18: after every step of the merge pass and in the returned outline, every
\* accepted candidate that is not strictly contained in another accepted
\* candidate of its page is present; and an entry leaves the outline only in
\* a step that appends a strictly longer text of the same page containing it.
C18_MaximalHeadingsKept ==
    [](maximal_headings_kept) /\ [][removed_only_for_longer]_vars

\* a returned outline from which an earlier, larger-set candidate was removed
\* in favour of a later candidate that contains it, next to a second maximal one
C18_Witness ==
    /\ returned
    /\ \E k, j \in 1..Len(potential_headings) :
           /\ k < j
           /\ potential_headings[k].page = potential_headings[j].page
           /\ potential_headings[k].size > potential_headings[j].size
           /\ strict_substring(potential_headings[k].text, potential_headings[j].text)
           /\ maximal_candidate(j)
           /\ ~\E i \in 1..Len(outline) : outline[i].text = potential_headings[k].text
           /\ \E i \in 1..Len(outline) : outline[i].text = potential_headings[j].text
    /\ Len(outline) >= 2

\* ------------------------------------------------------------------ pdf_analyzer.py: refine_text

\* re.sub(r'\s+', ' ', text): the first character of every whitespace run
\* becomes a blank, the rest of the run goes
collapse_whitespace(s) ==
    LET white(i) == s[i] \in WhitespaceChars
        keep(i) == ~white(i) \/ i = 1 \/ ~white(i - 1)
        kept == SelectSeq([i \in 1..Len(s) |-> i], keep)
    IN  [k \in 1..Len(kept) |-> IF white(kept[k]) THEN " " ELSE s[kept[k]]]

\* the characters that the pattern of line 189 keeps
KeptChars ==
    WordChars \cup WhitespaceChars \cup {".", ",", "!", "?", ":", ";", "-", "(", ")", "'", "\""}

\* re.sub(r'[^\w\s\.\,\!\?\:\;\-\(\)\'\"]+', ' ', text): every run of other
\* characters becomes one blank
replace_special(s) ==
    LET special(i) == s[i] \notin KeptChars
        keep(i) == ~special(i) \/ i = 1 \/ ~special(i - 1)
        kept == SelectSeq([i \in 1..Len(s) |-> i], keep)
    IN  [k \in 1..Len(kept) |-> IF special(kept[k]) THEN " " ELSE s[kept[k]]]

\* lines 188-189
clean_text(text) == replace_special(strip(collapse_whitespace(text)))

\* nltk sent_tokenize on text whose only sentence ends are periods followed by
\* whitespace or by the end of the text: each sentence keeps its period
RECURSIVE sent_tokenize(_)
sent_tokenize(s) ==
    LET t == lstrip(s)
        ends == {i \in 1..Len(t) :
                    t[i] = "." /\ (i = Len(t) \/ t[i + 1] \in WhitespaceChars)}
        e == IF ends = {} THEN Len(t)
             ELSE CHOOSE i \in ends : \A j \in ends : i <= j
    IN  IF t = <<>> THEN <<>>
        ELSE <<rstrip(SubSeq(t, 1, e))>> \o sent_tokenize(SubSeq(t, e + 1, Len(t)))

\* a > b for two scores <<numerator, denominator>>
score_gt(a, b) == a[1] * b[2] > b[1] * a[2]

\* lines 201-207: the sentences of more than 5 words whose relevance exceeds 0.05
RECURSIVE score_sentences(_, _, _)
score_sentences(sentences, persona, task) ==
    IF sentences = <<>> THEN <<>>
    ELSE LET sentence == strip(Head(sentences))
             relevance == calculate_relevance_score(sentence, persona, task)
             rest == score_sentences(Tail(sentences), persona, task)
         IN  IF Len(split(sentence)) > 5 /\ score_gt(relevance, <<5, 100>>)
             THEN <<[sentence |-> sentence, relevance |-> relevance]>> \o rest
             ELSE rest

\* the element of a one-element set; in the({f(x) : x \in {e}}) the value of e
\* is computed once, however often f refers to x
the(S) == CHOOSE x \in S : TRUE

\* line 210: scored_sentences.sort(key=lambda x: x[1], reverse=True), a stable sort
sort_by_relevance(scored) ==
    LET sorted(list) ==
            LET n == Len(list)
                pos(i) == 1 + Cardinality({j \in 1..n :
                              \/ score_gt(list[j].relevance, list[i].relevance)
                              \/ (j < i /\ ~score_gt(list[i].relevance,
                                                      list[j].relevance))})
            IN  [k \in 1..n |-> list[CHOOSE i \in 1..n : pos(i) = k]]
    IN  the({sorted(list) : list \in {scored}})

\* set(sentence.lower().split())
sentence_words_of(sentence) ==
    LET tokens == split(lower(sentence))
    IN  {tokens[i] : i \in 1..Len(tokens)}

\* select_step that never leaves the loop
select_step_no_limit(sentence, selected, seen_words) ==
    LET sentence_words == sentence_words_of(sentence)
        new_words == sentence_words \ seen_words
    IN  IF 10 * Cardinality(new_words) >= 3 * Cardinality(sentence_words)
        THEN [selected |-> Append(selected, sentence),
              seen_words |-> seen_words \cup sentence_words,
              stop |-> FALSE]
        ELSE [selected |-> selected, seen_words |-> seen_words, stop |-> FALSE]

\* lines 216-225: one iteration of the selection loop; stop is the break.
\* len(new_words) >= len(sentence_words) * 0.3 in floating point agrees with
\* 10 * len(new_words) >= 3 * len(sentence_words) for every sentence length here
select_step(sentence, selected, seen_words) ==
    LET sentence_words == sentence_words_of(sentence)
        new_words == sentence_words \ seen_words
    IN  IF 10 * Cardinality(new_words) >= 3 * Cardinality(sentence_words)
        THEN [selected |-> Append(selected, sentence),
              seen_words |-> seen_words \cup sentence_words,
              stop |-> Len(selected) + 1 >= 3]
        ELSE [selected |-> selected, seen_words |-> seen_words, stop |-> FALSE]

\* lines 227-228
joined_or_empty(selected) ==
    LET result == join_blank(selected)
    IN  IF Len(result) > 20 THEN result ELSE <<>>

SentTour == <<"V", "i", "s", "i", "t", " ", "t", "h", "e", " ", "b", "e", "a", "c", "h", " ", "c", "i", "t", "y", " ", "a", "n", "d", " ", "e", "n", "j", "o", "y", " ", "l", "o", "c", "a", "l", " ", "f", "o", "o", "d", " ", "c", "u", "l", "t", "u", "r", "e", " ", "t", "o", "u", "r", ".">>

SentNightlife == <<"V", "i", "s", "i", "t", " ", "t", "h", "e", " ", "b", "e", "a", "c", "h", " ", "c", "i", "t", "y", " ", "a", "n", "d", " ", "e", "n", "j", "o", "y", " ", "l", "o", "c", "a", "l", " ", "h", "o", "t", "e", "l", " ", "t", "r", "i", "p", " ", "n", "i", "g", "h", "t", "l", "i", "f", "e", ".">>

SentTwenty == <<"W", "e", " ", "g", "o", " ", "t", "o", " ", "a", " ", "h", "o", "t", " ", "c", "i", "t", "y", ".">>

SentNineteen == <<"I", " ", "g", "o", " ", "t", "o", " ", "a", " ", "h", "o", "t", " ", "c", "i", "t", "y", ".">>

SentHotel == <<"B", "o", "o", "k", " ", "a", " ", " ", "h", "o", "t", "e", "l", " ", "n", "e", "a", "r", " ", "t", "h", "e", " ", "o", "l", "d", " ", "h", "a", "r", "b", "o", "u", "r", " ", "@", " ", "t", "o", "d", "a", "y", ".">>

SentShort == <<"E", "n", "j", "o", "y", " ", "t", "h", "e", " ", "b", "e", "a", "c", "h", ".", "\n">>

SentenceUniverse ==
    {SentTour, SentNightlife, SentTwenty, SentNineteen, SentHotel, SentShort}

\* most sentences in a refined text
MaxSentences == 4

RefineTexts == {join_blank(w) : w \in SeqsUpTo(SentenceUniverse, MaxSentences)}

RefinePersonas == {"Travel Planner", "HR professional"}

RefineInit ==
    /\ rf_pc = "call"
    /\ rf_text \in RefineTexts
    /\ rf_persona \in RefinePersonas
    /\ rf_task = TaskTrip
    /\ rf_clean = <<>>
    /\ rf_scored = <<>>
    /\ rf_next = 0
    /\ rf_selected = <<>>
    /\ rf_seen_words = {}
    /\ rf_result = <<>>

\* lines 188-192, the text long enough
RefineClean ==
    /\ rf_pc = "call"
    /\ Len(clean_text(rf_text)) >= 20
    /\ rf_clean' = clean_text(rf_text)
    /\ rf_pc' = "sentences"
    /\ UNCHANGED <<rf_text, rf_persona, rf_task, rf_scored, rf_next, rf_selected,
                   rf_seen_words, rf_result>>
    /\ UNCHANGED refineOthers

\* lines 188-192, the early return
RefineReturnShort ==
    /\ rf_pc = "call"
    /\ Len(clean_text(rf_text)) < 20
    /\ rf_clean' = clean_text(rf_text)
    /\ rf_result' = <<>>
    /\ rf_pc' = "returned"
    /\ UNCHANGED <<rf_text, rf_persona, rf_task, rf_scored, rf_next, rf_selected,
                   rf_seen_words>>
    /\ UNCHANGED refineOthers

\* lines 194-214
RefineScore ==
    /\ rf_pc = "sentences"
    /\ rf_scored' = sort_by_relevance(
                        score_sentences(sent_tokenize(rf_clean), rf_persona, rf_task))
    /\ rf_selected' = <<>>
    /\ rf_seen_words' = {}
    /\ rf_next' = 1
    /\ rf_pc' = "select"
    /\ UNCHANGED <<rf_text, rf_persona, rf_task, rf_clean, rf_result>>
    /\ UNCHANGED refineOthers

\* lines 216-225, one iteration
RefineSelect ==
    /\ rf_pc = "select"
    /\ rf_next <= Len(rf_scored)
    /\ LET step == select_step(rf_scored[rf_next].sentence, rf_selected, rf_seen_words)
       IN  /\ rf_selected' = step.selected
           /\ rf_seen_words' = step.seen_words
           /\ rf_pc' = IF step.stop THEN "join" ELSE "select"
    /\ rf_next' = rf_next + 1
    /\ UNCHANGED <<rf_text, rf_persona, rf_task, rf_clean, rf_scored, rf_result>>
    /\ UNCHANGED refineOthers

\* lines 227-228
RefineReturn ==
    /\ \/ rf_pc = "join"
       \/ rf_pc = "select" /\ rf_next > Len(rf_scored)
    /\ rf_result' = joined_or_empty(rf_selected)
    /\ rf_pc' = "returned"
    /\ UNCHANGED <<rf_text, rf_persona, rf_task, rf_clean, rf_scored, rf_next,
                   rf_selected, rf_seen_words>>
    /\ UNCHANGED refineOthers

InitRefine == DocIdle /\ ClsIdle /\ ScoreIdle /\ RefineInit /\ SegIdle /\ OrchestratorIdle

NextRefine ==
    \/ RefineClean
    \/ RefineReturnShort
    \/ RefineScore
    \/ RefineSelect
    \/ RefineReturn

SpecRefine == InitRefine /\ [][NextRefine]_vars

\* ------------------------------------------------------------------ properties of refine_text

refined == rf_pc = "returned"

\* the distinct words of selected sentence j that selected sentence i has too
shared_words(i, j) ==
    sentence_words_of(rf_selected[j]) \cap sentence_words_of(rf_selected[i])

at_most_3_sentences ==
    /\ Len(rf_selected) <= 3
    /\ refined => rf_result \in {<<>>, join_blank(rf_selected)}

\* C12 as stated: at most 3 accepted sentences, and of any two the later one
\* shares strictly fewer than 70% of its distinct words with the earlier one.
C12_DiverseSentences_AsStated ==
    /\ at_most_3_sentences
    /\ \A i, j \in 1..Len(rf_selected) :
           i < j => 10 * Cardinality(shared_words(i, j))
                       < 7 * Cardinality(sentence_words_of(rf_selected[j]))

\* C12: the output is built from at most 3 accepted sentences, and of any two
\* accepted sentences the later one shares at most 70% of its distinct words
\* with the earlier one (70% itself is accepted: at least 30% new words).
C12_DiverseSentences ==
    /\ at_most_3_sentences
    /\ \A i, j \in 1..Len(rf_selected) :
           i < j => 10 * Cardinality(shared_words(i, j))
                       <= 7 * Cardinality(sentence_words_of(rf_selected[j]))

\* three sentences returned while a fourth candidate was left unexamined, two
\* of the three sharing exactly 70% of the later one's words
C12_Witness ==
    /\ refined
    /\ Len(rf_selected) = 3
    /\ rf_next <= Len(rf_scored)
    /\ rf_result = join_blank(rf_selected)
    /\ \E i, j \in 1..Len(rf_selected) :
           /\ i < j
           /\ 10 * Cardinality(shared_words(i, j))
                  = 7 * Cardinality(sentence_words_of(rf_selected[j]))

\* C17: refine_text returns the empty string exactly when the cleaned text or
\* the joined accepted sentences have fewer than 20 characters, and the joined
\* sentences unchanged otherwise, a joined result of 20 characters included.
C17_EmptyIffShorterThan20 ==
    refined =>
        LET joined == join_blank(rf_selected)
        IN  /\ rf_result = <<>> <=> (Len(rf_clean) < 20 \/ Len(joined) < 20)
            /\ rf_result # <<>> => rf_result = joined

\* ------------------------------------------------------------------ pdf_analyzer.py: identify_sections

\* text.split('\n'): the pieces between newlines, empty ones included
RECURSIVE split_lines(_)
split_lines(s) ==
    LET breaks == {i \in 1..Len(s) : s[i] = "\n"}
        b == CHOOSE i \in breaks : \A j \in breaks : i <= j
    IN  IF breaks = {} THEN <<s>>
        ELSE <<SubSeq(s, 1, b - 1)>> \o split_lines(SubSeq(s, b + 1, Len(s)))

\* r'^[A-Z][^.]*[A-Z]'
match_upper_then_upper(line) ==
    /\ line # <<>>
    /\ line[1] \in UpperChars
    /\ \E j \in 2..Len(line) :
           /\ line[j] \in UpperChars
           /\ \A k \in 2..(j - 1) : line[k] # "."

\* r'^\d+\.'
match_numbered_line(line) ==
    \E j \in 1..(Len(line) - 1) :
        /\ \A k \in 1..j : line[k] \in DigitChars
        /\ line[j + 1] = "."

\* lines 87-90, for a stripped non-empty line
is_section_header(line) ==
    \/ isupper(line)
    \/ match_upper_then_upper(line)
    \/ (Len(split(line)) < 8 /\ endswith(line, <<":">>))
    \/ match_numbered_line(line)

\* line.rstrip(':')
rstrip_colon(line) ==
    LET others == {i \in 1..Len(line) : line[i] # ":"}
    IN  IF others = {} THEN <<>>
        ELSE SubSeq(line, 1, CHOOSE i \in others : \A j \in others : j <= i)

\* a section as the tuple (title, start line)
Section(section_title, start_line) == <<section_title, start_line>>

\* lines 92-93 and 97-98: sections with the open section appended, if it has a title
close_section(sections, current_section, section_start_line) ==
    IF current_section # <<>>
    THEN Append(sections, Section(current_section, section_start_line))
    ELSE sections

TxtMainContent == <<"M", "a", "i", "n", " ", "C", "o", "n", "t", "e", "n", "t">>

\* lines 138-142 of extract_relevant_content
sections_or_main_content(sections) ==
    IF sections = <<>> THEN <<Section(TxtMainContent, 0)>> ELSE sections

LineUpper == <<"O", "V", "E", "R", "V", "I", "E", "W">>

LineTripPlan == <<"T", "r", "i", "p", " ", "P", "l", "a", "n">>

LineNotes == <<"N", "o", "t", "e", "s", ":">>

LineNumbered == <<"1", ".", " ", "i", "n", "t", "r", "o">>

LineSummary == <<" ", " ", "S", "u", "m", "m", "a", "r", "y", ":", ":", " ", " ">>

LineColon == <<":">>

LineSea == <<"t", "h", "e", " ", "s", "e", "a", " ", "i", "s", " ", "c", "a", "l", "m", ".">>

LineMrBrown == <<"M", "r", ".", " ", "B", "r", "o", "w", "n">>

LineBlank == <<" ", " ">>

LineUniverse ==
    {LineUpper, LineTripPlan, LineNotes, LineNumbered, LineSummary, LineColon,
     LineSea, LineMrBrown, LineBlank}

\* most lines of a page text
MaxLines == 3

\* "\n".join(lines)
RECURSIVE join_lines(_)
join_lines(lines) ==
    IF lines = <<>> THEN <<>>
    ELSE IF Len(lines) = 1 THEN lines[1]
    ELSE lines[1] \o <<"\n">> \o join_lines(Tail(lines))

PageTexts == {join_lines(l) : l \in SeqsUpTo(LineUniverse, MaxLines)}

SegInit ==
    /\ sg_pc = "call"
    /\ sg_text \in PageTexts
    /\ sg_lines = <<>>
    /\ sg_i = 0
    /\ sg_sections = <<>>
    /\ sg_current_section = <<>>
    /\ sg_section_start_line = 0
    /\ sg_page_sections = <<>>

\* lines 76-79
SegSplit ==
    /\ sg_pc = "call"
    /\ sg_lines' = split_lines(sg_text)
    /\ sg_sections' = <<>>
    /\ sg_current_section' = <<>>
    /\ sg_section_start_line' = 0
    /\ sg_i' = 0
    /\ sg_pc' = "lines"
    /\ UNCHANGED <<sg_text, sg_page_sections>>
    /\ UNCHANGED segOthers

\* lines 81-95, one iteration
SegLine ==
    /\ sg_pc = "lines"
    /\ sg_i < Len(sg_lines)
    /\ LET line == strip(sg_lines[sg_i + 1])
       IN  IF line # <<>> /\ is_section_header(line)
           THEN /\ sg_sections' = close_section(sg_sections, sg_current_section,
                                                 sg_section_start_line)
                /\ sg_current_section' = rstrip_colon(line)
                /\ sg_section_start_line' = sg_i
           ELSE UNCHANGED <<sg_sections, sg_current_section, sg_section_start_line>>
    /\ sg_i' = sg_i + 1
    /\ UNCHANGED <<sg_pc, sg_text, sg_lines, sg_page_sections>>
    /\ UNCHANGED segOthers

\* lines 97-100
SegReturn ==
    /\ sg_pc = "lines"
    /\ sg_i >= Len(sg_lines)
    /\ sg_sections' = close_section(sg_sections, sg_current_section,
                                     sg_section_start_line)
    /\ sg_pc' = "returned"
    /\ UNCHANGED <<sg_text, sg_lines, sg_i, sg_current_section,
                   sg_section_start_line, sg_page_sections>>
    /\ UNCHANGED segOthers

\* lines 138-142 of extract_relevant_content
SegFallback ==
    /\ sg_pc = "returned"
    /\ sg_page_sections' = sections_or_main_content(sg_sections)
    /\ sg_pc' = "sectioned"
    /\ UNCHANGED <<sg_text, sg_lines, sg_i, sg_sections, sg_current_section,
                   sg_section_start_line>>
    /\ UNCHANGED segOthers

InitSegment == DocIdle /\ ClsIdle /\ ScoreIdle /\ RefineIdle /\ SegInit /\ OrchestratorIdle

NextSegment == SegSplit \/ SegLine \/ SegReturn \/ SegFallback

SpecSegment == InitSegment /\ [][NextSegment]_vars

\* ------------------------------------------------------------------ properties of identify_sections

\* 1-based positions of the lines that are section-boundary candidates
boundary_lines ==
    {i \in 1..Len(sg_lines) :
        strip(sg_lines[i]) # <<>> /\ is_section_header(strip(sg_lines[i]))}

\* the k-th smallest element of a set of numbers
kth(S, k) == CHOOSE i \in S : Cardinality({j \in S : j <= i}) = k

\* one section per boundary line, in line order
section_per_boundary ==
    [k \in 1..Cardinality(boundary_lines) |->
        Section(rstrip_colon(strip(sg_lines[kth(boundary_lines, k)])),
                kth(boundary_lines, k) - 1)]

\* C16: identify_sections returns one section per boundary-candidate line, in
\* line order, each being the line without its trailing colons and the line's
\* index, the last one included; and a page without boundary lines goes on
\* as the single section ("Main Content", 0).
C16_OneSectionPerBoundary ==
    /\ sg_pc \in {"returned", "sectioned"} => sg_sections = section_per_boundary
    /\ sg_pc = "sectioned" =>
           sg_page_sections = IF boundary_lines = {}
                              THEN <<Section(TxtMainContent, 0)>>
                              ELSE section_per_boundary

\* ------------------------------------------------------------------ pdf_analyzer.py: extract_relevant_content

\* lines 81-98 from line index i on
RECURSIVE section_loop(_, _, _, _, _)
section_loop(lines, i, sections, current_section, section_start_line) ==
    IF i >= Len(lines)
    THEN close_section(sections, current_section, section_start_line)
    ELSE LET line == strip(lines[i + 1])
         IN  IF line # <<>> /\ is_section_header(line)
             THEN section_loop(lines, i + 1,
                               close_section(sections, current_section, section_start_line),
                               rstrip_colon(line), i)
             ELSE section_loop(lines, i + 1, sections, current_section, section_start_line)

identify_sections(text) == section_loop(split_lines(text), 0, <<>>, <<>>, 0)

\* lines 216-225 from scored sentence k on
RECURSIVE selection_loop(_, _, _, _)
selection_loop(scored, k, selected, seen_words) ==
    IF k > Len(scored) THEN selected
    ELSE LET step == select_step(scored[k].sentence, selected, seen_words)
         IN  IF step.stop THEN step.selected
             ELSE selection_loop(scored, k + 1, step.selected, step.seen_words)

refine_text(text, persona, task) ==
    LET cleaned == clean_text(text)
        scored == sort_by_relevance(score_sentences(sent_tokenize(cleaned), persona, task))
    IN  IF Len(cleaned) < 20 THEN <<>>
        ELSE joined_or_empty(selection_loop(scored, 1, <<>>, {}))

\* a PDF file of a collection as the decoder sees it: pages holds the text
\* page.extract_text() yields for each page
PdfFile(exists, decodes, pages) ==
    [exists |-> exists, decodes |-> decodes, pages |-> pages]

\* extract_text_from_pdf that returns the pages read before the error
extract_text_from_pdf_keeps_pages(file) ==
    LET numbered == [n \in 1..Len(file.pages) |->
                        [page_num |-> n, text |-> strip(file.pages[n])]]
        has_text(page) == page.text # <<>>
    IN  SelectSeq(numbered, has_text)

\* lines 57-72: the pages with text as <<page_num, text>> in page order; the
\* empty dict when PdfReader or extract_text raises
extract_text_from_pdf(file) ==
    LET numbered == [n \in 1..Len(file.pages) |->
                        [page_num |-> n, text |-> strip(file.pages[n])]]
        has_text(page) == page.text # <<>>
    IN  IF ~file.decodes THEN <<>> ELSE SelectSeq(numbered, has_text)

\* concatenation of a sequence of sequences
RECURSIVE flatten(_)
flatten(lists) ==
    IF lists = <<>> THEN <<>> ELSE Head(lists) \o flatten(Tail(lists))

\* the elements of list whose key is met for the first time; keys[i] is the
\* key of list[i]
first_of_each_key(list, keys) ==
    LET pick(l, ks) ==
            LET first(i) == \A j \in 1..(i - 1) : ks[j] # ks[i]
            IN  the({[k \in 1..Len(kept) |-> l[kept[k]]] :
                        kept \in {SelectSeq([i \in 1..Len(l) |-> i], first)}})
    IN  the({pick(l, ks) : l \in {list}, ks \in {keys}})

\* line 160: all_sections.sort(key=lambda x: x['score'], reverse=True), stable
sort_by_score(sections) ==
    LET sorted(list) ==
            LET n == Len(list)
                pos(i) == 1 + Cardinality({j \in 1..n :
                              \/ score_gt(list[j].score, list[i].score)
                              \/ (j < i /\ ~score_gt(list[i].score, list[j].score))})
            IN  [k \in 1..n |-> list[CHOOSE i \in 1..n : pos(i) = k]]
    IN  the({sorted(list) : list \in {sections}})

\* list[:n]
first_n(list, n) ==
    the({SubSeq(l, 1, IF Len(l) < n THEN Len(l) ELSE n) : l \in {list}})

\* lines 137-157: the sections of one page that have a positive score
page_sections(page, persona, task) ==
    LET entries(sections, relevance_score) ==
            IF relevance_score[1] > 0
            THEN [k \in 1..Len(sections) |->
                     [title |-> sections[k][1], page |-> page.page_num,
                      score |-> relevance_score, text |-> page.text]]
            ELSE <<>>
    IN  the({entries(sections, relevance_score) :
                sections \in {sections_or_main_content(identify_sections(page.text))},
                relevance_score \in {calculate_relevance_score(page.text, persona, task)}})

\* lines 162-181: the refined texts of the top sections
refined_subsections(top_sections, persona, task) ==
    LET meaningful(sub) == sub.text # <<>> /\ Len(strip(sub.text)) > 10
        unique(kept) ==
            first_of_each_key(kept, [k \in 1..Len(kept) |-> lower(strip(kept[k].text))])
    IN  the({unique(SelectSeq(refined_texts, meaningful)) :
                refined_texts \in
                    {[k \in 1..Len(top_sections) |->
                         [page |-> top_sections[k].page,
                          text |-> refine_text(top_sections[k].text, persona, task),
                          relevance_score |-> top_sections[k].score]]}})

\* lines 132-183; two strings have one hash exactly when they are equal
extract_relevant_content(pages_text, persona, task, max_sections) ==
    LET all_sections(found) ==
            first_of_each_key(found,
                              [k \in 1..Len(found) |-> lower(strip(found[k].title))])
        top_sections(found) == first_n(sort_by_score(all_sections(found)), max_sections)
        content(top) ==
            [sections |-> top, subsections |-> refined_subsections(top, persona, task)]
        from(found) == the({content(top) : top \in {top_sections(found)}})
    IN  the({from(found) :
                found \in {flatten([n \in 1..Len(pages_text) |->
                                       page_sections(pages_text[n], persona, task)])}})

\* ------------------------------------------------------------------ pdf_analyzer.py: process_collection and main

\* input_data['persona']['role']
CollectionPersona == "Travel Planner"

\* input_data['job_to_be_done']['task']
CollectionTask == TaskTrip

\* lines 254-287: the two lists as one iteration of the loop leaves them
process_document(doc, extracted_sections, subsection_analysis, persona, task) ==
    LET skipped == [extracted_sections |-> extracted_sections,
                    subsection_analysis |-> subsection_analysis]
        appended(content) ==
            [extracted_sections |->
                 extracted_sections \o
                 [k \in 1..Len(content.sections) |->
                     [document |-> doc.filename,
                      section_title |-> content.sections[k].title,
                      importance_rank |-> Len(extracted_sections) + k,
                      page_number |-> content.sections[k].page]],
             subsection_analysis |->
                 subsection_analysis \o
                 [k \in 1..Len(content.subsections) |->
                     [document |-> doc.filename,
                      refined_text |-> content.subsections[k].text,
                      page_number |-> content.subsections[k].page]]]
        read(pages_text) ==
            IF pages_text = <<>> THEN skipped
            ELSE the({appended(content) :
                         content \in {extract_relevant_content(pages_text, persona,
                                                               task, 5)}})
    IN  IF ~doc.file.exists THEN skipped
        ELSE the({read(pages_text) : pages_text \in {extract_text_from_pdf(doc.file)}})

\* lines 289-291
renumber(extracted_sections) ==
    [i \in 1..Len(extracted_sections) |->
        [extracted_sections[i] EXCEPT !.importance_rank = i]]

\* lines 293-306, the timestamp left out
output_data_of(collection, extracted_sections, subsection_analysis) ==
    [metadata |->
        [input_documents |-> [k \in 1..Len(collection.documents) |->
                                 collection.documents[k].filename],
         persona |-> CollectionPersona,
         job_to_be_done |-> CollectionTask],
     extracted_sections |-> first_n(renumber(extracted_sections), 10),
     subsection_analysis |-> first_n(subsection_analysis, 10)]

\* lines 232-251, the input file missing
CoReturnEmpty ==
    /\ co_pc = "call"
    /\ ~co_collection.input_exists
    /\ co_output' = <<>>
    /\ co_pc' = "returned"
    /\ UNCHANGED <<co_collection, co_d, co_extracted_sections, co_subsection_analysis>>
    /\ UNCHANGED mainVars
    /\ UNCHANGED collectionOthers

\* lines 232-251
CoOpen ==
    /\ co_pc = "call"
    /\ co_collection.input_exists
    /\ co_extracted_sections' = <<>>
    /\ co_subsection_analysis' = <<>>
    /\ co_d' = 1
    /\ co_pc' = "documents"
    /\ UNCHANGED <<co_collection, co_output>>
    /\ UNCHANGED mainVars
    /\ UNCHANGED collectionOthers

\* lines 253-287, one iteration
CoDocument ==
    /\ co_pc = "documents"
    /\ co_d <= Len(co_collection.documents)
    /\ LET lists == process_document(co_collection.documents[co_d],
                                     co_extracted_sections, co_subsection_analysis,
                                     CollectionPersona, CollectionTask)
       IN  /\ co_extracted_sections' = lists.extracted_sections
           /\ co_subsection_analysis' = lists.subsection_analysis
    /\ co_d' = co_d + 1
    /\ UNCHANGED <<co_pc, co_collection, co_output>>
    /\ UNCHANGED mainVars
    /\ UNCHANGED collectionOthers

\* lines 289-306
CoReturn ==
    /\ co_pc = "documents"
    /\ co_d > Len(co_collection.documents)
    /\ co_extracted_sections' = renumber(co_extracted_sections)
    /\ co_output' = output_data_of(co_collection, co_extracted_sections,
                                   co_subsection_analysis)
    /\ co_pc' = "returned"
    /\ UNCHANGED <<co_collection, co_d, co_subsection_analysis>>
    /\ UNCHANGED mainVars
    /\ UNCHANGED collectionOthers

\* lines 324-326: --collection
MainCollection ==
    /\ mn_pc = "start"
    /\ mn_mode = "collection"
    /\ mn_k' = 1
    /\ co_collection' = mn_collections[1]
    /\ co_pc' = "call"
    /\ mn_pc' = "processing"
    /\ UNCHANGED <<mn_mode, mn_collections, mn_outputs>>
    /\ UNCHANGED <<co_d, co_extracted_sections, co_subsection_analysis, co_output>>
    /\ UNCHANGED collectionOthers

\* lines 331-334: --all
MainAll ==
    /\ mn_pc = "start"
    /\ mn_mode = "all"
    /\ mn_k' = 1
    /\ mn_pc' = "loop"
    /\ UNCHANGED <<mn_mode, mn_collections, mn_outputs>>
    /\ UNCHANGED collectionVars
    /\ UNCHANGED collectionOthers

\* lines 336-339: a collection whose directory exists
MainProcess ==
    /\ mn_pc = "loop"
    /\ mn_k <= Len(mn_collections)
    /\ mn_collections[mn_k].dir_exists
    /\ co_collection' = mn_collections[mn_k]
    /\ co_pc' = "call"
    /\ mn_pc' = "processing"
    /\ UNCHANGED <<mn_mode, mn_collections, mn_k, mn_outputs>>
    /\ UNCHANGED <<co_d, co_extracted_sections, co_subsection_analysis, co_output>>
    /\ UNCHANGED collectionOthers

\* lines 336-338 and 343-344: a collection whose directory is missing
MainSkip ==
    /\ mn_pc = "loop"
    /\ mn_k <= Len(mn_collections)
    /\ ~mn_collections[mn_k].dir_exists
    /\ mn_k' = mn_k + 1
    /\ UNCHANGED <<mn_pc, mn_mode, mn_collections, mn_outputs>>
    /\ UNCHANGED collectionVars
    /\ UNCHANGED collectionOthers

\* lines 327-329 and 340-342: save_output if the dict is not empty
MainSave ==
    /\ mn_pc = "processing"
    /\ co_pc = "returned"
    /\ mn_outputs' = IF co_output # <<>>
                     THEN [mn_outputs EXCEPT ![mn_k] = co_output]
                     ELSE mn_outputs
    /\ mn_k' = mn_k + 1
    /\ mn_pc' = IF mn_mode = "all" THEN "loop" ELSE "done"
    /\ co_pc' = "idle"
    /\ UNCHANGED <<mn_mode, mn_collections>>
    /\ UNCHANGED <<co_collection, co_d, co_extracted_sections, co_subsection_analysis,
                   co_output>>
    /\ UNCHANGED collectionOthers

\* line 336: the list of collections is through
MainDone ==
    /\ mn_pc = "loop"
    /\ mn_k > Len(mn_collections)
    /\ mn_pc' = "done"
    /\ UNCHANGED <<mn_mode, mn_collections, mn_k, mn_outputs>>
    /\ UNCHANGED collectionVars
    /\ UNCHANGED collectionOthers

\* ------------------------------------------------------------------ process_pdfs.py: process_pdfs

\* lines 94-122 from candidate k on
RECURSIVE merge_loop(_, _, _, _)
merge_loop(headings, k, seen_keys, entries) ==
    IF k > Len(headings) THEN entries
    ELSE LET merged == merge_step(headings[k], seen_keys, entries)
         IN  merge_loop(headings, k + 1, merged.seen, merged.clean_outline)

\* lines 8-132 for a file that fitz opens
extract_title_and_outline(pdf) ==
    LET spans == collect_spans(pdf.spans)
        headings == sort_headings(extract_headings(spans, estimate_body_size(spans)))
    IN  IF spans = <<>>
        THEN [title |-> title_or_untitled(strip(pdf.metadata_title)), outline |-> <<>>]
        ELSE [title |-> resolve_title(strip(pdf.metadata_title), spans),
              outline |-> sort_by_page(merge_loop(headings, 1, {}, <<>>))]

\* lines 290-304, one iteration: the JSON file is written unless the try block raises
PpProcess ==
    /\ pp_pc = "loop"
    /\ pp_i <= Len(pp_pdfs)
    /\ IF pp_pdfs[pp_i].readable
       THEN /\ pp_outputs' = [pp_outputs EXCEPT
                                 ![pp_i] = extract_title_and_outline(pp_pdfs[pp_i])]
            /\ UNCHANGED pp_errors
       ELSE /\ pp_errors' = pp_errors \cup {pp_i}
            /\ UNCHANGED pp_outputs
    /\ pp_i' = pp_i + 1
    /\ UNCHANGED <<pp_pc, pp_pdfs>>
    /\ UNCHANGED batchOthers

\* line 290: the glob is through
PpDone ==
    /\ pp_pc = "loop"
    /\ pp_i > Len(pp_pdfs)
    /\ pp_pc' = "done"
    /\ UNCHANGED <<pp_pdfs, pp_i, pp_outputs, pp_errors>>
    /\ UNCHANGED batchOthers

\* ------------------------------------------------------------------ the runs of the two programs

PageBeach == <<"B", "E", "A", "C", "H", " ", "G", "U", "I", "D", "E", "\n", "V", "i", "s", "i", "t", " ", "t", "h", "e", " ", "b", "e", "a", "c", "h", " ", "c", "i", "t", "y", " ", "a", "n", "d", " ", "e", "n", "j", "o", "y", " ", "l", "o", "c", "a", "l", " ", "f", "o", "o", "d", " ", "c", "u", "l", "t", "u", "r", "e", " ", "t", "o", "u", "r", ".", "\n", "L", "o", "c", "a", "l", " ", "F", "o", "o", "d", "\n", "C", "i", "t", "y", " ", "T", "o", "u", "r">>

PageHarbour == <<"H", "A", "R", "B", "O", "U", "R", " ", "W", "A", "L", "K", "S", "\n", "B", "o", "o", "k", " ", "a", " ", "h", "o", "t", "e", "l", " ", "n", "e", "a", "r", " ", "t", "h", "e", " ", "o", "l", "d", " ", "h", "a", "r", "b", "o", "u", "r", " ", "t", "o", "d", "a", "y", ".", "\n", "Q", "u", "i", "e", "t", " ", "P", "l", "a", "c", "e", "s", "\n", "E", "v", "e", "n", "i", "n", "g", " ", "P", "l", "a", "n", "s">>

PageBlank == <<" ", " ", "\n", " ">>

FileMissing == PdfFile(FALSE, TRUE, <<>>)

\* a file whose second page makes the reader raise
FileCorrupt == PdfFile(TRUE, FALSE, <<PageBeach>>)

FileNoText == PdfFile(TRUE, TRUE, <<PageBlank>>)

\* six sections, three of score 100 and three of score 20
FileBig == PdfFile(TRUE, TRUE, <<PageBeach, PageBlank, PageHarbour>>)

\* three sections of score 20
FileLow == PdfFile(TRUE, TRUE, <<PageHarbour>>)

FileUniverse == {FileMissing, FileCorrupt, FileNoText, FileBig, FileLow}

\* most documents of a collection
MaxDocs == 3

\* a collection directory: files[k] is the PDF behind the k-th name of the
\* documents list, which is named by its position
Collection(dir_exists, input_exists, files) ==
    [dir_exists |-> dir_exists,
     input_exists |-> input_exists,
     documents |-> [k \in 1..Len(files) |-> [filename |-> k, file |-> files[k]]]]

DirMissing == Collection(FALSE, FALSE, <<>>)

InputMissing == Collection(TRUE, FALSE, <<>>)

SingleCollections ==
    {DirMissing, InputMissing}
    \cup {Collection(TRUE, TRUE, f) : f \in SeqsUpTo(FileUniverse, MaxDocs)}

BatchCollections ==
    {DirMissing, InputMissing}
    \cup {Collection(TRUE, TRUE, f) :
            f \in {<<FileLow>>, <<FileMissing, FileLow>>, <<FileCorrupt, FileBig>>,
                   <<FileNoText, FileLow>>}}

\* a file of the input directory: readable is FALSE when fitz.open raises
PdfInput(readable, stored_title, spans) ==
    [readable |-> readable, metadata_title |-> stored_title, spans |-> spans]

PdfUniverse ==
    {PdfInput(FALSE, <<>>, <<>>),
     PdfInput(TRUE, TxtMetaReport, <<>>),
     PdfInput(TRUE, <<>>, <<Span(TxtQuick, 10, 0, 1), Span(TxtQuick, 10, 0, 1),
                            Span(TxtMethodology, 18, 16, 1)>>)}

\* most files in the input directory
MaxPdfs == 3

NoFiles(n) == [k \in 1..n |-> <<>>]

MainInit(mode, collections) ==
    /\ mn_pc = "start"
    /\ mn_mode = mode
    /\ mn_collections = collections
    /\ mn_k = 0
    /\ mn_outputs = NoFiles(Len(collections))

BatchInit(pdfs) ==
    /\ pp_pc = "loop"
    /\ pp_pdfs = pdfs
    /\ pp_i = 1
    /\ pp_outputs = NoFiles(Len(pdfs))
    /\ pp_errors = {}

\* the two programs on one machine: missing and broken inputs ahead of good ones
BothRuns ==
    /\ MainInit("all", <<DirMissing, InputMissing,
                          Collection(TRUE, TRUE, <<FileCorrupt, FileMissing, FileBig>>)>>)
    /\ BatchInit(<<PdfInput(FALSE, <<>>, <<>>), PdfInput(TRUE, TxtMetaReport, <<>>)>>)

InitOrchestrate ==
    /\ DocIdle /\ ClsIdle /\ ScoreIdle /\ RefineIdle /\ SegIdle
    /\ CollectionIdle
    /\ \/ \E c \in SingleCollections : MainInit("collection", <<c>>) /\ BatchIdle
       \/ \E cs \in [1..3 -> BatchCollections] : MainInit("all", cs) /\ BatchIdle
       \/ \E pdfs \in SeqsUpTo(PdfUniverse, MaxPdfs) : MainIdle /\ BatchInit(pdfs)
       \/ BothRuns

NextOrchestrate ==
    \/ MainCollection
    \/ MainAll
    \/ MainProcess
    \/ MainSkip
    \/ MainSave
    \/ MainDone
    \/ CoReturnEmpty
    \/ CoOpen
    \/ CoDocument
    \/ CoReturn
    \/ PpProcess
    \/ PpDone

SpecOrchestrate == InitOrchestrate /\ [][NextOrchestrate]_vars

\* ------------------------------------------------------------------ properties of the digest

digest_returned == co_pc = "returned" /\ co_output # <<>>

\* the score of the page that an entry of extracted_sections points to
entry_score(entry) ==
    calculate_relevance_score(
        strip(co_collection.documents[entry.document].file.pages[entry.page_number]),
        CollectionPersona, CollectionTask)

scores_of(entries) == [i \in 1..Len(entries) |-> entry_score(entries[i])]

\* out holds the highest-scoring entries of all, best first; the scores are given
ranked_top(out, out_scores, all, all_scores) ==
    /\ \A i \in 1..Len(out) : out[i].importance_rank = i
    /\ \A i, j \in 1..Len(out) : i < j => ~score_gt(out_scores[j], out_scores[i])
    /\ \A e \in 1..Len(all) :
           ~listed(out, all[e]) =>
               \A i \in 1..Len(out) : ~score_gt(all_scores[e], out_scores[i])

\* C13: the digest holds at most 10 extracted sections and at most 10
\* subsections; no document contributed more than 5 sections; and the extracted
\* sections are the highest-scoring sections that the documents contributed,
\* in non-increasing score order, importance_rank 1 first.
C13_DigestTopTen ==
    digest_returned =>
        /\ Len(co_output.extracted_sections) <= 10
        /\ Len(co_output.subsection_analysis) <= 10
        /\ \A k \in 1..Len(co_collection.documents) :
               Cardinality({i \in 1..Len(co_extracted_sections) :
                               co_extracted_sections[i].document = k}) <= 5
        /\ \E out_scores \in {scores_of(co_output.extracted_sections)},
              all_scores \in {scores_of(co_extracted_sections)} :
               ranked_top(co_output.extracted_sections, out_scores,
                          co_extracted_sections, all_scores)

\* ------------------------------------------------------------------ failures are isolated

\* the PDF is missing, cannot be decoded or has no page with text
failing(doc) ==
    \/ ~doc.file.exists
    \/ ~doc.file.decodes
    \/ \A n \in 1..Len(doc.file.pages) : strip(doc.file.pages[n]) = <<>>

\* <<title, page>> of the entries that name the document
sections_from(entries, filename) ==
    LET named(e) == e.document = filename
        mine == SelectSeq(entries, named)
    IN  [i \in 1..Len(mine) |-> <<mine[i].section_title, mine[i].page_number>>]

\* <<text, page>> of the subsections that name the document
subsections_from(entries, filename) ==
    LET named(e) == e.document = filename
        mine == SelectSeq(entries, named)
    IN  [i \in 1..Len(mine) |-> <<mine[i].refined_text, mine[i].page_number>>]

\* what the document has to offer on its own
offered(doc) ==
    LET content == extract_relevant_content(extract_text_from_pdf(doc.file),
                                            CollectionPersona, CollectionTask, 5)
    IN  the({[sections |-> [i \in 1..Len(c.sections) |->
                               <<c.sections[i].title, c.sections[i].page>>],
              subsections |-> [i \in 1..Len(c.subsections) |->
                                  <<c.subsections[i].text, c.subsections[i].page>>]] :
                c \in {content}})

documents_isolated ==
    (co_pc \in {"documents", "returned"} /\ co_collection.input_exists) =>
        LET docs == co_collection.documents
        IN  /\ \A k \in 1..Len(docs) :
                   failing(docs[k]) =>
                       /\ sections_from(co_extracted_sections, k) = <<>>
                       /\ subsections_from(co_subsection_analysis, k) = <<>>
            /\ co_pc = "returned" =>
                   /\ co_d = Len(docs) + 1
                   /\ co_output # <<>>
                   /\ Len(co_output.metadata.input_documents) = Len(docs)
                   /\ \A k \in 1..Len(docs) :
                          (~failing(docs[k]) /\ \E j \in 1..(k - 1) : failing(docs[j])) =>
                              \E mine \in {offered(docs[k])} :
                                  /\ sections_from(co_extracted_sections, k) = mine.sections
                                  /\ subsections_from(co_subsection_analysis, k)
                                         = mine.subsections

collections_isolated ==
    mn_mode = "all" =>
        /\ mn_pc = "done" => mn_k = Len(mn_collections) + 1
        /\ \A k \in 1..Len(mn_collections) :
               /\ (k < mn_k \/ mn_pc = "done") =>
                      (mn_outputs[k] # <<>>
                          <=> (mn_collections[k].dir_exists
                               /\ mn_collections[k].input_exists))
               /\ mn_outputs[k] # <<>> =>
                      Len(mn_outputs[k].metadata.input_documents)
                          = Len(mn_collections[k].documents)

pdfs_isolated ==
    pp_pc # "idle" =>
        /\ pp_pc = "done" => pp_i = Len(pp_pdfs) + 1
        /\ \A i \in 1..Len(pp_pdfs) :
               IF i < pp_i /\ pp_pdfs[i].readable
               THEN pp_outputs[i] = extract_title_and_outline(pp_pdfs[i])
                    /\ i \notin pp_errors
               ELSE pp_outputs[i] = <<>> /\ (i \in pp_errors <=> i < pp_i)

\* C14: a document whose PDF is missing, undecodable or without text adds no
\* entry and the documents after it add theirs; under --all a collection
\* whose directory or input file is missing gets no output file and the
\* collections after it get theirs; and in process_pdfs a file that raises
\* gets no output while every other file gets its own.
C14_FailuresIsolated ==
    documents_isolated /\ collections_isolated /\ pdfs_isolated

\* both programs are through: collections without directory and without input
\* file ahead of one that got its output, in it the sections of a document
\* that follows an undecodable and a missing one, and an unreadable PDF ahead
\* of one whose outline was written
C14_Witness ==
    /\ mn_pc = "done" /\ mn_mode = "all" /\ pp_pc = "done"
    /\ \E a, b, c \in 1..Len(mn_collections) :
           /\ a < c /\ b < c
           /\ ~mn_collections[a].dir_exists
           /\ mn_collections[b].dir_exists /\ ~mn_collections[b].input_exists
           /\ mn_outputs[a] = <<>> /\ mn_outputs[b] = <<>> /\ mn_outputs[c] # <<>>
           /\ \E i, j, k \in 1..Len(mn_collections[c].documents) :
                  /\ i < k /\ j < k
                  /\ ~mn_collections[c].documents[i].file.decodes
                  /\ ~mn_collections[c].documents[j].file.exists
                  /\ mn_outputs[c].extracted_sections # <<>>
                  /\ \A e \in 1..Len(mn_outputs[c].extracted_sections) :
                         mn_outputs[c].extracted_sections[e].document = k
    /\ \E i, j \in 1..Len(pp_pdfs) :
           /\ i < j
           /\ ~pp_pdfs[i].readable /\ pp_outputs[i] = <<>>
           /\ pp_pdfs[j].readable /\ pp_outputs[j] # <<>>

====
